---- MODULE Spec2Model ----
(***************************************************************************)
(* Verification model of phira-web-monitor.                                *)
(*                                                                         *)
(*  - SpecCache : the proxy's chart cache and the /chart/{id} handler      *)
(*                (monitor-proxy/src/chart.rs, chart/cache.rs)             *)
(*  - SpecLive  : the live session's upstream -> browser event path        *)
(*                (monitor-proxy/src/live.rs, live/client.rs, utils.rs)    *)
(*  - SpecScene : one player's GameScene playback engine                   *)
(*                (monitor-client/src/game_monitor/game_scene.rs,          *)
(*                 engine/chart.rs, time.rs)                               *)
(*                                                                         *)
(* Times are integers in units of 10 ms (0.15 s = 15).                     *)
(***************************************************************************)
EXTENDS Integers, Sequences, FiniteSets, TLC

\* ------------------------------------------------------------------------
\* Bounds
\* ------------------------------------------------------------------------
NumReq == 2
MaxVer == 2
MaxUp == 3
MaxCmd == 2
MaxWall == 180
MaxLoad == 1
MaxEvents == 2

\* Option<T>::None for the integer-valued options of the model
None == -1

Max(a, b) == IF a >= b THEN a ELSE b
Min(a, b) == IF a <= b THEN a ELSE b

VARIABLES
    \* ---- chart cache (proxy) ----
    upstreamVer,   \* chartUpdated currently reported by the upstream API
    meta,          \* {id}.meta : 0 = absent / empty / unparsable, v = chart_updated
    bin,           \* {id}.bin  : NoFile or [cu, data]
    binTmp,        \* {id}.bin.tmp
    metaLock,      \* holder of the exclusive flock on {id}.meta, 0 = free
    in_flight,     \* AppState.in_flight entry for the id: 0 = none, r = sender of r
    rq             \* per request: position and locals of handle_chart_request

cacheVars == <<upstreamVer, meta, bin, binTmp, metaLock, in_flight, rq>>

VARIABLES
    \* ---- live session (proxy) ----
    up_in,         \* commands written to the upstream TCP stream, not yet read by it
    up_out,        \* commands the upstream server has sent, not yet processed
    up_sn,         \* number of commands the upstream server has sent so far
    join_result,   \* GameMonitorState.join_result  (TaskResult)
    leave_result,  \* GameMonitorState.leave_result (TaskResult)
    cmd_pc,        \* position of the browser -> proxy arm of handle_ws
    ncmd,          \* number of browser commands taken so far
    event_q,       \* the mpsc channel event_tx -> event_rx
    browser        \* frames written to the browser WebSocket, in order

liveVars == <<up_in, up_out, up_sn, join_result, leave_result, cmd_pc, ncmd,
              event_q, browser>>

VARIABLES
    \* ---- one player's GameScene (browser) ----
    wall,          \* performance.now(), in units of 10 ms
    scene,         \* the GameScene
    frame,         \* what the last call of GameScene::render did
    ntouch,        \* number of touch batches of TouchScript pushed so far
    nsn,           \* number of judge events of JudgeScript pushed so far
    hold_log       \* history: what the frames emitted for the Hold note so far

sceneVars == <<wall, scene, frame, ntouch, nsn, hold_log>>

VARIABLES
    \* ---- lifetime of one live session (proxy) ----
    sess           \* handle_ws, its GameMonitorClient and the heartbeat task

sessVars == <<sess>>

VARIABLES
    \* ---- GameMonitor: the registry of scenes (browser) ----
    mon,           \* scenes, selected_chart_id, chart_data, pending_chart
    event_queue,   \* LiveEvents decoded by onmessage, not yet dispatched
    timestamp,     \* performance.now() of the last tick, in units of 10 ms
    nev            \* number of LiveEvents received so far

monVars == <<mon, event_queue, timestamp, nev>>

VARIABLES
    \* ---- monitor-common core: one keyframe animation ----
    anim,          \* the Anim: time, keyframes, cursor
    anim_t         \* history: the argument of the last set_time call, None before the first

animVars == <<anim, anim_t>>

VARIABLES
    \* ---- chart parsers (proxy) and the world-position pass (browser) ----
    parse,         \* one chart file: format, parent fields as written, result of the parser
    walk           \* ChartRenderer::fetch_pos: where the recursion stands

parseVars == <<parse, walk>>

VARIABLES
    \* ---- monitor-common core: one BpmList ----
    bpm,           \* the BpmList: elements (beats, time, bpm) and the shared cursor
    bq             \* the lookup in progress: beats asked, time returned, beats returned

bpmVars == <<bpm, bq>>

coreVars == <<animVars, parseVars, bpmVars>>

VARIABLES
    \* ---- RoomMonitorClient and its /rooms/listen subscriber (proxy) ----
    mp,            \* the multiplayer server: its rooms, the number of room events so far
    room_wire,     \* ServerCommands sent to the room monitor, not yet processed
    rmc,           \* ClientState: room_result, cached_room_state, cached_events; update_room_info
    listener       \* the stream listen_stream returned, empty before the subscription

roomVars == <<mp, room_wire, rmc, listener>>

vars == <<cacheVars, liveVars, sceneVars, sessVars, monVars, coreVars, roomVars>>
nonRoomVars == <<cacheVars, liveVars, sceneVars, sessVars, monVars, coreVars>>
nonCacheVars == <<liveVars, sceneVars, sessVars, monVars, coreVars, roomVars>>
nonLiveVars == <<cacheVars, sceneVars, sessVars, monVars, coreVars, roomVars>>
nonSceneVars == <<cacheVars, liveVars, sessVars, monVars, coreVars, roomVars>>
nonSessVars == <<cacheVars, liveVars, sceneVars, monVars, coreVars, roomVars>>
nonMonVars == <<cacheVars, liveVars, sceneVars, sessVars, coreVars, roomVars>>
nonCoreVars == <<cacheVars, liveVars, sceneVars, sessVars, monVars, roomVars>>
nonAnimVars == <<nonCoreVars, parseVars, bpmVars>>
nonParseVars == <<nonCoreVars, animVars, bpmVars>>
nonBpmVars == <<nonCoreVars, animVars, parseVars>>

\* ========================================================================
\* Live session: upstream -> browser
\* ========================================================================
PushKinds == {"Touches", "Judges", "Message", "ChangeState", "OnJoinRoom"}
\* rx: the value received (the response's sn); re (history): the number of
\* the command that response answers.
NewTaskResult == [tx |-> "none", rx |-> None, re |-> None]

InitLive ==
    /\ up_in = <<>>
    /\ up_out = <<>>
    /\ up_sn = 0
    /\ join_result = NewTaskResult
    /\ leave_result = NewTaskResult
    /\ cmd_pc = "idle"
    /\ ncmd = 0
    /\ event_q = <<>>
    /\ browser = <<>>

\* utils.rs:28-31 -- TaskResult::acquire up to the wait: a fresh oneshot
\* channel replaces whatever sender was stored.
Arm(tr) == [tx |-> "live", rx |-> None, re |-> None]

\* utils.rs:34-42 -- TaskResult::put: take the stored sender and send through
\* it; the send fails when its receiver is gone, and there may be no sender.
Put(tr, value) ==
    IF tr.tx = "live" THEN [tx |-> "none", rx |-> value.sn, re |-> value.re]
    ELSE [tx |-> "none", rx |-> tr.rx, re |-> tr.re]

\* utils.rs:32 -- the wait timed out: the receiver is dropped, the sender
\* stays stored.
TimedOut(tr) == [tx |-> IF tr.tx = "live" THEN "stale" ELSE tr.tx, rx |-> None, re |-> None]

\* live.rs:66-70, client.rs:138-153 -- WsCommand::Join: join_room arms
\* join_result and sends JoinRoom upstream.
JoinRoomSend ==
    /\ cmd_pc = "idle"
    /\ ncmd < MaxCmd
    /\ ncmd' = ncmd + 1
    /\ join_result' = Arm(join_result)
    /\ up_in' = Append(up_in, [kind |-> "JoinRoom", id |-> ncmd + 1])
    /\ cmd_pc' = "join_wait"
    /\ UNCHANGED <<up_out, up_sn, leave_result, event_q, browser>>
    /\ UNCHANGED nonLiveVars

\* client.rs:153-156 -- the response arrived: forward it as LiveEvent::Join.
JoinRoomDone ==
    /\ cmd_pc = "join_wait"
    /\ join_result.rx # None
    /\ event_q' = Append(event_q, [kind |-> "Join", sn |-> join_result.rx])
    /\ join_result' = [join_result EXCEPT !.rx = None, !.re = None]
    /\ cmd_pc' = "idle"
    /\ UNCHANGED <<up_in, up_out, up_sn, leave_result, ncmd, browser>>
    /\ UNCHANGED nonLiveVars

\* utils.rs:32, live.rs:67-69 -- no response within TIMEOUT: join_room
\* returns Err, nothing is forwarded.
JoinRoomTimeout ==
    /\ cmd_pc = "join_wait"
    /\ join_result.rx = None
    /\ join_result' = TimedOut(join_result)
    /\ cmd_pc' = "idle"
    /\ UNCHANGED <<up_in, up_out, up_sn, leave_result, ncmd, event_q, browser>>
    /\ UNCHANGED nonLiveVars

\* live.rs:71-75, client.rs:159-167 -- WsCommand::Leave.
LeaveRoomSend ==
    /\ cmd_pc = "idle"
    /\ ncmd < MaxCmd
    /\ ncmd' = ncmd + 1
    /\ leave_result' = Arm(leave_result)
    /\ up_in' = Append(up_in, [kind |-> "LeaveRoom", id |-> ncmd + 1])
    /\ cmd_pc' = "leave_wait"
    /\ UNCHANGED <<up_out, up_sn, join_result, event_q, browser>>
    /\ UNCHANGED nonLiveVars

\* client.rs:167-169 -- forward the response as LiveEvent::Leave.
LeaveRoomDone ==
    /\ cmd_pc = "leave_wait"
    /\ leave_result.rx # None
    /\ event_q' = Append(event_q, [kind |-> "Leave", sn |-> leave_result.rx])
    /\ leave_result' = [leave_result EXCEPT !.rx = None, !.re = None]
    /\ cmd_pc' = "idle"
    /\ UNCHANGED <<up_in, up_out, up_sn, join_result, ncmd, browser>>
    /\ UNCHANGED nonLiveVars

\* utils.rs:32, live.rs:72-74 -- no response within TIMEOUT.
LeaveRoomTimeout ==
    /\ cmd_pc = "leave_wait"
    /\ leave_result.rx = None
    /\ leave_result' = TimedOut(leave_result)
    /\ cmd_pc' = "idle"
    /\ UNCHANGED <<up_in, up_out, up_sn, join_result, ncmd, event_q, browser>>
    /\ UNCHANGED nonLiveVars

\* The upstream server answers the next command it reads; re (history) is
\* the number of the command answered, 0 for a pushed event.
UpstreamAnswer ==
    /\ up_in # <<>>
    /\ up_sn < MaxUp
    /\ up_in' = Tail(up_in)
    /\ up_sn' = up_sn + 1
    /\ up_out' = Append(up_out, [kind |-> Head(up_in).kind, sn |-> up_sn + 1,
                                 re |-> Head(up_in).id])
    /\ UNCHANGED <<join_result, leave_result, cmd_pc, ncmd, event_q, browser>>
    /\ UNCHANGED nonLiveVars

\* The upstream server pushes an event of the monitored room.
UpstreamPush ==
    /\ up_sn < MaxUp
    /\ \E k \in PushKinds :
          up_out' = Append(up_out, [kind |-> k, sn |-> up_sn + 1, re |-> 0])
    /\ up_sn' = up_sn + 1
    /\ UNCHANGED <<up_in, join_result, leave_result, cmd_pc, ncmd, event_q, browser>>
    /\ UNCHANGED nonLiveVars

\* client.rs:186-209 -- the event a pushed server command is forwarded as.
LiveEventOf(cmd) ==
    [kind |-> CASE cmd.kind = "ChangeState" -> "StateChange"
                [] cmd.kind = "OnJoinRoom" -> "UserJoin"
                [] OTHER -> cmd.kind,
     sn |-> cmd.sn]

\* client.rs:173-214 -- process: the stream's receive task handles the next
\* server command.
Process ==
    /\ up_out # <<>>
    /\ LET cmd == Head(up_out) IN
         /\ up_out' = Tail(up_out)
         /\ IF cmd.kind = "JoinRoom"
            THEN /\ join_result' = Put(join_result, cmd)
                 /\ UNCHANGED <<leave_result, event_q>>
            ELSE IF cmd.kind = "LeaveRoom"
            THEN /\ leave_result' = Put(leave_result, cmd)
                 /\ UNCHANGED <<join_result, event_q>>
            ELSE /\ event_q' = Append(event_q, LiveEventOf(cmd))
                 /\ UNCHANGED <<join_result, leave_result>>
    /\ UNCHANGED <<up_in, up_sn, cmd_pc, ncmd, browser>>
    /\ UNCHANGED nonLiveVars

\* live.rs:50-57 -- the proxy -> browser arm: encode the next event and write
\* it to the WebSocket.
Forward ==
    /\ event_q # <<>>
    /\ browser' = Append(browser, Head(event_q))
    /\ event_q' = Tail(event_q)
    /\ UNCHANGED <<up_in, up_out, up_sn, join_result, leave_result, cmd_pc, ncmd>>
    /\ UNCHANGED nonLiveVars

NextLive ==
    \/ JoinRoomSend
    \/ JoinRoomDone
    \/ JoinRoomTimeout
    \/ LeaveRoomSend
    \/ LeaveRoomDone
    \/ LeaveRoomTimeout
    \/ UpstreamAnswer
    \/ UpstreamPush
    \/ Process
    \/ Forward

\* C6: the events written to the browser are in the order in which the
\* upstream server sent the corresponding commands, the JoinRoom / LeaveRoom
\* responses included.
C6_UpstreamOrderPreserved ==
    \A i \in 1..Len(browser) : \A j \in 1..Len(browser) :
        i < j => browser[i].sn < browser[j].sn

\* ========================================================================
\* Live session: lifetime of handle_ws
\* ========================================================================
\* client.rs:121 -- consecutive heartbeat timeouts that end the ping task
PING_FAIL_LIMIT == 3

\* pc: connect -> auth_wait -> select -> leaving -> ended.
\* tcp: none / open / closed (by the upstream) / released (Stream dropped).
\* ws: open / closed (by the browser) / dropped (by the proxy).
\* ping: none / sleep / wait / ended.
\* permit: the permit stored in ping_notify (tokio Notify).
\* pend (history): the Pings not answered yet, oldest first, each "fresh"
\* (HEARTBEAT_TIMEOUT has not passed since it was sent) or "expired".
\* missed (history): the number of Pings in a row, up to the latest one
\* decided, that got no Pong within HEARTBEAT_TIMEOUT of being sent.
NewSession ==
    [pc |-> "connect", auth |-> "none", ws |-> "open", tcp |-> "none",
     ping |-> "none", fails |-> 0, events |-> <<>>, to_browser |-> <<>>,
     to_upstream |-> <<>>, permit |-> FALSE, pend |-> <<>>, missed |-> 0]

InitSession == sess = NewSession

\* client.rs:42-88 -- connect, create the Stream, send
\* GameMonitorAuthenticate and wait for auth_result.
ClientConnect ==
    /\ sess.pc = "connect"
    /\ sess' = [sess EXCEPT !.pc = "auth_wait", !.tcp = "open",
                            !.to_upstream = Append(@, "GameMonitorAuthenticate")]
    /\ UNCHANGED nonSessVars

\* client.rs:177-179 -- the upstream answers the authentication; process
\* puts the answer into auth_result.
UpstreamAuthenticate ==
    /\ sess.pc = "auth_wait" /\ sess.tcp = "open" /\ sess.auth = "none"
    /\ \E r \in {"ok", "err"} : sess' = [sess EXCEPT !.auth = r]
    /\ UNCHANGED nonSessVars

\* client.rs:90-136, live.rs:43-46 -- authenticated: the success is queued
\* as LiveEvent::Authenticate, the heartbeat task is spawned, handle_ws
\* enters its select.
ClientAuthenticated ==
    /\ sess.pc = "auth_wait" /\ sess.auth = "ok"
    /\ sess' = [sess EXCEPT !.pc = "select", !.ping = "sleep",
                            !.events = Append(@, "Authenticate(Ok)")]
    /\ UNCHANGED nonSessVars

\* client.rs:42, 88, 90 and live.rs:35-40 -- GameMonitorClient::new returns
\* Err (connect failed, no answer within TIMEOUT, or the upstream refused
\* the token): handle_ws logs and returns; Stream and socket are dropped.
ClientNewFailed ==
    /\ \/ sess.pc = "connect"
       \/ sess.pc = "auth_wait" /\ sess.auth # "ok"
    /\ sess' = [sess EXCEPT !.pc = "ended",
                            !.tcp = IF @ = "none" THEN "none" ELSE "released",
                            !.ws = IF @ = "open" THEN "dropped" ELSE @]
    /\ UNCHANGED nonSessVars

\* live.rs:50-57 -- proxy -> browser arm of the select.
ForwardEvent ==
    /\ sess.pc = "select" /\ sess.ws = "open" /\ sess.events # <<>>
    /\ sess' = [sess EXCEPT !.events = Tail(@),
                            !.to_browser = Append(@, Head(sess.events))]
    /\ UNCHANGED nonSessVars

\* The browser closes its WebSocket.
BrowserClose ==
    /\ sess.pc \in {"auth_wait", "select"} /\ sess.ws = "open"
    /\ sess' = [sess EXCEPT !.ws = "closed"]
    /\ UNCHANGED nonSessVars

\* The upstream server closes the TCP connection.
UpstreamClose ==
    /\ sess.tcp = "open"
    /\ sess' = [sess EXCEPT !.tcp = "closed"]
    /\ UNCHANGED nonSessVars

\* live.rs:54-56, 61, 84, 89-92 -- an arm of the select ends (the WebSocket
\* read returns None / Close, or the write fails); handle_ws calls
\* client.leave_room(), which sends LeaveRoom and waits for the answer.
SelectEnds ==
    /\ sess.pc = "select" /\ sess.ws = "closed"
    /\ sess' = [sess EXCEPT !.pc = "leaving",
                            !.to_upstream = IF sess.tcp = "open"
                                            THEN Append(@, "LeaveRoom") ELSE @]
    /\ UNCHANGED nonSessVars

\* live.rs:92-94 -- leave_room returned (answer, error or TIMEOUT), the
\* client is dropped: its JoinHandle detaches the heartbeat task, and the
\* Stream is released only if no task still holds it.
SessionEnd ==
    /\ sess.pc = "leaving"
    /\ sess' = [sess EXCEPT !.pc = "ended",
                            !.tcp = IF sess.ping \in {"sleep", "wait"}
                                    THEN @ ELSE "released"]
    /\ UNCHANGED nonSessVars

\* The heartbeat task ends: its Arc<Stream> goes; the Stream is released
\* when the client is gone too.
PingEnded(s) ==
    [s EXCEPT !.ping = "ended",
              !.tcp = IF s.pc = "ended" THEN "released" ELSE @]

MaxPend == 2

Expired(pend) == [i \in 1..Len(pend) |-> "expired"]
HasFresh(pend) == \E i \in 1..Len(pend) : pend[i] = "fresh"
Missed(s) == [s EXCEPT !.missed = Min(@ + 1, PING_FAIL_LIMIT)]

\* What the heartbeat history is after the sleep of HEARTBEAT_INTERVAL and a
\* new Ping: HEARTBEAT_INTERVAL is longer than HEARTBEAT_TIMEOUT, so a Ping
\* still unanswered has missed its window; of more than MaxPend unanswered
\* Pings the oldest is forgotten (its Pong never comes).
AfterPing(s) ==
    LET s1 == IF HasFresh(s.pend) THEN Missed(s) ELSE s
        p == Append(Expired(s.pend), "fresh")
    IN [s1 EXCEPT !.pend = IF Len(p) > MaxPend THEN Tail(p) ELSE p]

\* client.rs:108-114 -- after HEARTBEAT_INTERVAL send Ping and wait for
\* ping_notify; a failed send ends the task (possible once the connection
\* is closed).
PingSend ==
    /\ sess.ping = "sleep"
    /\ \/ sess' = [AfterPing(sess) EXCEPT !.ping = "wait"]
       \/ sess.tcp # "open" /\ sess' = PingEnded(sess)
    /\ UNCHANGED nonSessVars

\* client.rs:176 -- the upstream answers the oldest unanswered Ping; process
\* calls ping_notify.notify_one(), which wakes the waiting task or, when no
\* task waits, stores the permit for the next notified().
Pong ==
    /\ sess.ping \in {"sleep", "wait"} /\ sess.tcp = "open"
    /\ sess.pend # <<>>
    /\ sess' = [sess EXCEPT !.pend = Tail(@),
                            !.permit = TRUE,
                            !.missed = IF Head(sess.pend) = "fresh" THEN 0 ELSE @]
    /\ UNCHANGED nonSessVars

\* client.rs:114-118 -- notified() completes within HEARTBEAT_TIMEOUT: at
\* once when a permit is stored.
PingNotified ==
    /\ sess.ping = "wait" /\ sess.permit
    /\ sess' = [sess EXCEPT !.ping = "sleep", !.fails = 0, !.permit = FALSE]
    /\ UNCHANGED nonSessVars

\* client.rs:119-125 -- no notification within HEARTBEAT_TIMEOUT: the Ping
\* just sent has missed its window.
PingTimeout ==
    /\ sess.ping = "wait" /\ ~sess.permit
    /\ LET s == Missed([sess EXCEPT !.pend = Expired(@), !.fails = @ + 1]) IN
       sess' = IF s.fails >= PING_FAIL_LIMIT
               THEN PingEnded(s)
               ELSE [s EXCEPT !.ping = "sleep"]
    /\ UNCHANGED nonSessVars

\* The steps the proxy takes by itself.
SessionSteps ==
    \/ ClientConnect
    \/ ClientAuthenticated
    \/ ClientNewFailed
    \/ ForwardEvent
    \/ SelectEnds
    \/ SessionEnd
    \/ PingSend
    \/ PingNotified
    \/ PingTimeout

NextSession ==
    \/ ClientConnect
    \/ UpstreamAuthenticate
    \/ ClientAuthenticated
    \/ ClientNewFailed
    \/ ForwardEvent
    \/ BrowserClose
    \/ UpstreamClose
    \/ SelectEnds
    \/ SessionEnd
    \/ PingSend
    \/ Pong
    \/ PingNotified
    \/ PingTimeout

\* ========================================================================
\* GameScene: the per-player playback engine
\* ========================================================================
SEEK_OFFSET == 10
START_DELAY_SECS == 450
REWIND_ON_RESUME == 100
HOLD_PARTICLE_INTERVAL == 15
UNJUDGED_LIMIT == 40
STALE_LIMIT == 20
TOUCH_TIMEOUT == 200
TOUCH_FADE_TIME == 30

\* Wall-clock time between two animation frames. Within MaxWall the full
\* START_DELAY_SECS never elapses: the clock starts through a buffered
\* target_time (Rule 1's shortened deadline).
TickSteps == {20}

\* ---- TimeManager (time.rs) ----
TimeNew(w) == [start_time |-> w, pause_time |-> None]
TimeNow(tm, w) == (IF tm.pause_time # None THEN tm.pause_time ELSE w) - tm.start_time
TimePaused(tm) == tm.pause_time # None
TimePause(tm, w) == IF tm.pause_time = None THEN [tm EXCEPT !.pause_time = w] ELSE tm
\* resume() that forgets to move start_time by the length of the pause.
ResumeWithoutShift(tm, w) ==
    IF tm.pause_time # None
    THEN [start_time |-> tm.start_time, pause_time |-> None]
    ELSE tm
TimeResume(tm, w) ==
    IF tm.pause_time # None
    THEN [start_time |-> tm.start_time + (w - tm.pause_time), pause_time |-> None]
    ELSE tm
TimeSeekTo(tm, pos, w) ==
    [tm EXCEPT !.start_time = (IF tm.pause_time # None THEN tm.pause_time ELSE w) - pos]
TimeReset(w) == [start_time |-> w, pause_time |-> None]

\* ---- the chart the room plays: one line, a Click, a Hold and a fake Click ----
Note(kind, time, end_time, fake) ==
    [kind |-> kind, time |-> time, end_time |-> end_time, fake |-> fake]
TestChart ==
    << << Note("Click", 5, 5, FALSE),
          Note("Hold", 60, 95, FALSE),
          Note("Click", 10, 10, TRUE) >> >>

NotJudged == [s |-> "NotJudged", at |-> 0, j |-> "-", perfect |-> FALSE]
Judged(at, j) == [s |-> "Judged", at |-> at, j |-> j, perfect |-> FALSE]
Hold(perfect, at) == [s |-> "Hold", at |-> at, j |-> "-", perfect |-> perfect]

FreshJudges(chart) ==
    [l \in 1..Len(chart) |-> [n \in 1..Len(chart[l]) |-> NotJudged]]

NoAudio == [playing |-> FALSE, from |-> None, origin |-> None]

\* audio.rs:16-26 -- AudioEngine::new: a new audio context, whose clock
\* starts at 0, with start_time 0 and offset 0.  origin is the wall time at
\* which get_time() reads 0; the audio context's clock is taken to advance
\* exactly as the wall clock does (no drift, never suspended).
NewAudio(w) == [playing |-> FALSE, from |-> None, origin |-> w]

\* audio.rs:68-92 -- play(start_time): start_time = currentTime - (pos + offset)
AudioPlay(pos, w) == [playing |-> TRUE, from |-> pos, origin |-> w - pos]

\* audio.rs:112-114 -- get_time(): currentTime - start_time - offset
AudioTime(a, w) == w - a.origin

\* game_scene.rs:85-101 -- GameScene::new_headless
NewHeadless(w) ==
    [render_ctx |-> FALSE,
     audio |-> NoAudio,
     chart_renderer |-> FALSE,
     chart |-> << >>,
     judge |-> << >>,
     cr_time |-> 0,
     gen |-> 0,
     time |-> TimePause(TimeNew(w), w),
     judge_pause_time |-> None,
     target_time |-> None,
     unpause_signal |-> None,
     start_wall_time |-> None,
     pending_judges |-> << >>,
     active_touches |-> << >>,
     fading_touches |-> << >>]

NoFrame ==
    [kind |-> "none", now |-> None, time |-> None,
     events |-> << >>, drained |-> << >>, hitsounds |-> << >>, particles |-> << >>]

\* Nothing emitted yet for the Hold note.
NoHoldLog == [t0 |-> None, ticks |-> 0, completes |-> 0, late |-> 0]

InitScene ==
    /\ hold_log = NoHoldLog
    /\ wall = 0
    /\ scene = NewHeadless(0)
    /\ frame = NoFrame
    /\ ntouch = 0
    /\ nsn = 0

\* game_scene.rs:104-114 -- reset_state
ResetState(sc, w) ==
    [sc EXCEPT !.time = TimePause(TimeReset(w), w),
               !.judge_pause_time = None,
               !.target_time = None,
               !.unpause_signal = None,
               !.start_wall_time = None,
               !.pending_judges = << >>,
               !.active_touches = << >>,
               !.fading_touches = << >>]

\* Wall-clock time passes while the scene has no canvas (GameMonitor::tick
\* renders only the scenes that have one).
Tick ==
    /\ scene.start_wall_time # None
    /\ ~scene.render_ctx
    /\ \E d \in TickSteps :
          /\ wall + d <= MaxWall
          /\ wall' = wall + d
    /\ UNCHANGED <<scene, frame, ntouch, nsn, hold_log>>
    /\ UNCHANGED nonSceneVars

\* attach_canvas without the mid-game seek of game_scene.rs:150-162.
AttachNoSeek(sc, w) ==
    IF sc.render_ctx THEN sc
    ELSE [sc EXCEPT !.render_ctx = TRUE, !.audio = NewAudio(w)]

\* game_scene.rs:131-166 -- attach_canvas
attach_canvas(sc, w) ==
    IF sc.render_ctx THEN sc
    ELSE LET a == [sc EXCEPT !.render_ctx = TRUE, !.audio = NewAudio(w)] IN
         IF a.start_wall_time # None /\ a.target_time # None
         THEN [a EXCEPT !.time =
                  TimeSeekTo(a.time, Max(a.target_time - SEEK_OFFSET, 0), w)]
         ELSE a

AttachCanvas ==
    /\ scene' = attach_canvas(scene, wall)
    /\ UNCHANGED <<wall, frame, ntouch, nsn, hold_log>>
    /\ UNCHANGED nonSceneVars

\* game_scene.rs:170-175 -- detach_canvas: the renderer goes, and the frame
\* it showed with it
detach_canvas(sc) == [sc EXCEPT !.render_ctx = FALSE, !.audio = NoAudio]

DetachCanvas ==
    /\ scene' = detach_canvas(scene)
    /\ frame' = NoFrame
    /\ UNCHANGED <<wall, ntouch, nsn, hold_log>>
    /\ UNCHANGED nonSceneVars

\* load_chart without the reset_state of game_scene.rs:193: the new chart
\* meets the clock, the queues and the pause of the old one.
LoadChartKeepsState(sc, w) ==
    [sc EXCEPT
        !.chart_renderer = TRUE,
        !.chart = TestChart,
        !.judge = FreshJudges(TestChart),
        !.cr_time = 0,
        !.gen = sc.gen + 1,
        !.audio = [sc.audio EXCEPT !.playing = FALSE]]

\* game_scene.rs:188-202 -- load_chart
load_chart(sc, w) ==
    [ResetState(sc, w) EXCEPT
        !.chart_renderer = TRUE,
        !.chart = TestChart,
        !.judge = FreshJudges(TestChart),
        !.cr_time = 0,
        !.gen = sc.gen + 1,
        !.audio = [sc.audio EXCEPT !.playing = FALSE]]

LoadChart ==
    /\ scene.gen < MaxLoad
    /\ scene' = load_chart(scene, wall)
    /\ hold_log' = NoHoldLog
    /\ UNCHANGED <<wall, frame, ntouch, nsn>>
    /\ UNCHANGED nonSceneVars

\* start() without the early return of game_scene.rs:254-256.
StartAgain(sc, w) ==
    [sc EXCEPT !.time = TimePause(TimeReset(w), w), !.start_wall_time = w]

\* game_scene.rs:253-261 -- start
start(sc, w) ==
    IF sc.start_wall_time # None THEN sc
    ELSE [sc EXCEPT !.time = TimePause(TimeReset(w), w),
                    !.start_wall_time = w]

Start ==
    /\ scene' = start(scene, wall)
    /\ UNCHANGED <<wall, frame, ntouch, nsn, hold_log>>
    /\ UNCHANGED nonSceneVars

\* ---- judge events and touch frames as they arrive from the room ----
JudgeEv(line_id, note_id, time, judgement) ==
    [line_id |-> line_id, note_id |-> note_id, time |-> time, judgement |-> judgement, sn |-> 0]

\* What the watched player's client sends, in arrival order: the Click is
\* hit, the Hold is started, and a second verdict names the Click again.
JudgeScript ==
    << JudgeEv(0, 0, 5, "Perfect"),
       JudgeEv(0, 1, 60, "HoldPerfect"),
       JudgeEv(0, 0, 30, "Miss") >>
TouchScript == << 20, 140 >>
BatchSizes == {0, 1, 2}

Numbered(batch, from) ==
    [i \in 1..Len(batch) |-> [batch[i] EXCEPT !.sn = from + i]]
Last(q) == q[Len(q)]

\* push_judges that overwrites target_time with the last event's time.
PushJudgesOverwrite(sc, judges) ==
    IF judges = << >> THEN sc
    ELSE [sc EXCEPT
            !.pending_judges = sc.pending_judges \o judges,
            !.unpause_signal = Last(judges).time,
            !.target_time = Last(judges).time]

\* game_scene.rs:269-275 -- push_judges
push_judges(sc, judges) ==
    IF judges = << >> THEN sc
    ELSE [sc EXCEPT
            !.pending_judges = sc.pending_judges \o judges,
            !.unpause_signal = Last(judges).time,
            !.target_time =
                Max(IF sc.target_time = None THEN Last(judges).time
                    ELSE sc.target_time, Last(judges).time)]

\* game_scene.rs:277-310 -- push_touches: the last frame's time moves
\* target_time forward; the frame holds one point, of finger 0, which
\* becomes an active touch or updates the one there is (active_touches has
\* at most this one entry, kept as a sequence; of a touch only last_update
\* is kept, its start_time and position keyframes are what is drawn).
push_touches(sc, t) ==
    [sc EXCEPT !.target_time = Max(IF sc.target_time = None THEN t ELSE sc.target_time, t),
               !.active_touches =
                   << [last_update |-> t] >>]

\* game_scene.rs:277-281 -- push_touches on a batch of frames, given by their
\* times: an empty batch has no last frame and changes nothing.
push_touch_frames(sc, times) ==
    IF times = << >> THEN sc ELSE push_touches(sc, Last(times))

PushJudges ==
    /\ \E k \in BatchSizes :
          /\ nsn + k <= Len(JudgeScript)
          /\ LET judges == Numbered(SubSeq(JudgeScript, nsn + 1, nsn + k), nsn) IN
             /\ nsn' = nsn + k
             /\ scene' = push_judges(scene, judges)
    /\ UNCHANGED <<wall, frame, ntouch, hold_log>>
    /\ UNCHANGED nonSceneVars

PushTouches ==
    /\ ntouch < Len(TouchScript)
    /\ ntouch' = ntouch + 1
    /\ scene' = push_touches(scene, TouchScript[ntouch + 1])
    /\ UNCHANGED <<wall, frame, nsn, hold_log>>
    /\ UNCHANGED nonSceneVars

\* ---- ChartRenderer (engine/chart.rs) and the live judge hook ----
Ev(kind, j, l, n) == [kind |-> kind, j |-> j, line_idx |-> l, note_idx |-> n]
Drain(q, jd, evs, dr) == [queue |-> q, judge |-> jd, events |-> evs, drained |-> dr]

\* The hook with `continue` where line 408 has `break`: an event ahead of the
\* clock is stepped over and the ones behind it are applied.
RECURSIVE HookStepOver(_, _, _, _, _)
HookStepOver(q, jd, t, evs, dr) ==
    IF q = << >> THEN Drain(q, jd, evs, dr)
    ELSE LET ev == Head(q)
             l == ev.line_id + 1
             n == ev.note_id + 1
             d == [sn |-> ev.sn, time |-> ev.time]
         IN
         IF ev.time > t
         THEN LET r == HookStepOver(Tail(q), jd, t, evs, dr) IN
              [r EXCEPT !.queue = <<ev>> \o r.queue]
         ELSE IF ~(l \in 1..Len(jd)) THEN HookStepOver(Tail(q), jd, t, evs, Append(dr, d))
         ELSE IF ~(n \in 1..Len(jd[l])) THEN HookStepOver(Tail(q), jd, t, evs, Append(dr, d))
         ELSE IF ev.judgement \in {"Perfect", "Good", "Bad", "Miss"}
              THEN HookStepOver(Tail(q), [jd EXCEPT ![l][n] = Judged(ev.time, ev.judgement)], t,
                                Append(evs, Ev("Judged", ev.judgement, l, n)), Append(dr, d))
              ELSE HookStepOver(Tail(q),
                                [jd EXCEPT ![l][n] = Hold(ev.judgement = "HoldPerfect", t)], t,
                                Append(evs, Ev("HoldStart", "-", l, n)), Append(dr, d))

\* The hook stamping a verdict with the frame's time, as it does for a
\* Hold start, instead of the event's own time.
RECURSIVE HookFrameTime(_, _, _, _, _)
HookFrameTime(q, jd, t, evs, dr) ==
    IF q = << >> THEN Drain(q, jd, evs, dr)
    ELSE LET ev == Head(q)
             l == ev.line_id + 1
             n == ev.note_id + 1
             d == [sn |-> ev.sn, time |-> ev.time]
         IN
         IF ev.time > t THEN Drain(q, jd, evs, dr)
         ELSE IF ~(l \in 1..Len(jd)) THEN HookFrameTime(Tail(q), jd, t, evs, Append(dr, d))
         ELSE IF ~(n \in 1..Len(jd[l])) THEN HookFrameTime(Tail(q), jd, t, evs, Append(dr, d))
         ELSE IF ev.judgement \in {"Perfect", "Good", "Bad", "Miss"}
              THEN HookFrameTime(Tail(q), [jd EXCEPT ![l][n] = Judged(t, ev.judgement)], t,
                                 Append(evs, Ev("Judged", ev.judgement, l, n)), Append(dr, d))
              ELSE HookFrameTime(Tail(q),
                                 [jd EXCEPT ![l][n] = Hold(ev.judgement = "HoldPerfect", t)], t,
                                 Append(evs, Ev("HoldStart", "-", l, n)), Append(dr, d))

\* The hook with `break` where lines 411-416 have `continue`: an event that
\* names no note is popped and ends the drain of this frame.
RECURSIVE HookBreakOnMissing(_, _, _, _, _)
HookBreakOnMissing(q, jd, t, evs, dr) ==
    IF q = << >> THEN Drain(q, jd, evs, dr)
    ELSE LET ev == Head(q)
             l == ev.line_id + 1
             n == ev.note_id + 1
             d == [sn |-> ev.sn, time |-> ev.time]
         IN
         IF ev.time > t THEN Drain(q, jd, evs, dr)
         ELSE IF ~(l \in 1..Len(jd)) THEN Drain(Tail(q), jd, evs, Append(dr, d))
         ELSE IF ~(n \in 1..Len(jd[l])) THEN Drain(Tail(q), jd, evs, Append(dr, d))
         ELSE IF ev.judgement \in {"Perfect", "Good", "Bad", "Miss"}
              THEN HookBreakOnMissing(Tail(q), [jd EXCEPT ![l][n] = Judged(ev.time, ev.judgement)], t,
                                      Append(evs, Ev("Judged", ev.judgement, l, n)), Append(dr, d))
              ELSE HookBreakOnMissing(Tail(q),
                                      [jd EXCEPT ![l][n] = Hold(ev.judgement = "HoldPerfect", t)], t,
                                      Append(evs, Ev("HoldStart", "-", l, n)), Append(dr, d))

\* game_scene.rs:405-458 -- the hook given to update_judges: apply the
\* pending judge events whose time has come, in queue order.
RECURSIVE Hook(_, _, _, _, _)
Hook(q, jd, t, evs, dr) ==
    IF q = << >> THEN Drain(q, jd, evs, dr)
    ELSE LET ev == Head(q)
             l == ev.line_id + 1
             n == ev.note_id + 1
         IN
         IF ev.time > t THEN Drain(q, jd, evs, dr)
         ELSE IF ~(l \in 1..Len(jd)) THEN Hook(Tail(q), jd, t, evs, Append(dr, [sn |-> ev.sn, time |-> ev.time]))
         ELSE IF ~(n \in 1..Len(jd[l])) THEN Hook(Tail(q), jd, t, evs, Append(dr, [sn |-> ev.sn, time |-> ev.time]))
         ELSE IF ev.judgement \in {"Perfect", "Good", "Bad", "Miss"}
              THEN Hook(Tail(q), [jd EXCEPT ![l][n] = Judged(ev.time, ev.judgement)], t,
                        Append(evs, Ev("Judged", ev.judgement, l, n)), Append(dr, [sn |-> ev.sn, time |-> ev.time]))
              ELSE Hook(Tail(q),
                        [jd EXCEPT ![l][n] = Hold(ev.judgement = "HoldPerfect", t)], t,
                        Append(evs, Ev("HoldStart", "-", l, n)), Append(dr, [sn |-> ev.sn, time |-> ev.time]))

\* engine/chart.rs:120-156 -- one note in the judge pass: a Hold in progress
\* completes at end_time or advances its tick timer.
HoldJudgement(st) == IF st.perfect THEN "Perfect" ELSE "Good"
HoldStatus(note, st, t) ==
    IF note.fake \/ st.s # "Hold" \/ note.kind # "Hold" THEN st
    ELSE IF t >= note.end_time THEN Judged(t, HoldJudgement(st))
    ELSE IF t > st.at THEN Hold(st.perfect, st.at + HOLD_PARTICLE_INTERVAL)
    ELSE st
HoldEvents(note, st, t, l, n) ==
    IF note.fake \/ st.s # "Hold" \/ note.kind # "Hold" THEN << >>
    ELSE IF t >= note.end_time THEN << Ev("HoldComplete", HoldJudgement(st), l, n) >>
    ELSE IF t > st.at THEN << Ev("HoldTick", HoldJudgement(st), l, n) >>
    ELSE << >>

RECURSIVE NotesEvents(_, _, _, _, _)
NotesEvents(notes, jl, t, l, n) ==
    IF n > Len(notes) THEN << >>
    ELSE HoldEvents(notes[n], jl[n], t, l, n) \o NotesEvents(notes, jl, t, l, n + 1)
RECURSIVE LinesEvents(_, _, _, _)
LinesEvents(chart, jd, t, l) ==
    IF l > Len(chart) THEN << >>
    ELSE NotesEvents(chart[l], jd[l], t, l, 1) \o LinesEvents(chart, jd, t, l + 1)

\* engine/chart.rs:77-163 with the hook of its callers -- update_judges:
\* nothing when dt <= 0; otherwise the hook, then the pass over the notes.
update_judges(chart, jd, q, t, dt) ==
    IF dt <= 0 THEN Drain(q, jd, << >>, << >>)
    ELSE LET h == Hook(q, jd, t, << >>, << >>) IN
         Drain(h.queue,
               [l \in 1..Len(chart) |-> [n \in 1..Len(chart[l]) |->
                   HoldStatus(chart[l][n], h.judge[l][n], t)]],
               h.events \o LinesEvents(chart, h.judge, t, 1),
               h.drained)

\* R3's test: some non-fake note is still NotJudged more than UNJUDGED_LIMIT
\* after its time.
has_unjudged(chart, jd, t) ==
    \E l \in 1..Len(chart) : \E n \in 1..Len(chart[l]) :
        /\ ~chart[l][n].fake
        /\ jd[l][n].s = "NotJudged"
        /\ t - chart[l][n].time > UNJUDGED_LIMIT

\* Stale-note cleanup: every non-fake NotJudged note older than STALE_LIMIT
\* becomes Judged(player_time, Miss).
clear_stale_notes(chart, jd, player_time) ==
    [l \in 1..Len(chart) |-> [n \in 1..Len(chart[l]) |->
        IF ~chart[l][n].fake /\ jd[l][n].s = "NotJudged"
           /\ player_time - chart[l][n].time > STALE_LIMIT
        THEN Judged(player_time, "Miss") ELSE jd[l][n]]]

\* game_scene.rs:462-476 -- the notes whose hitsound is played
RECURSIVE Hitsounds(_)
Hitsounds(evs) ==
    IF evs = << >> THEN << >>
    ELSE LET e == Head(evs) IN
         (IF (e.kind = "Judged" /\ e.j \notin {"Miss", "Bad"}) \/ e.kind = "HoldStart"
          THEN << <<e.line_idx, e.note_idx>> >> ELSE << >>) \o Hitsounds(Tail(evs))

\* engine/chart.rs:189-221 -- emit_particles: one burst per Perfect / Good
\* Judged, HoldTick or HoldComplete event
RECURSIVE Particles(_)
Particles(evs) ==
    IF evs = << >> THEN << >>
    ELSE LET e == Head(evs) IN
         (IF e.kind \in {"Judged", "HoldTick", "HoldComplete"} /\ e.j \in {"Perfect", "Good"}
          THEN << [line_idx |-> e.line_idx, note_idx |-> e.note_idx, j |-> e.j] >>
          ELSE << >>) \o Particles(Tail(evs))

\* The gate of game_scene.rs:329-340 with no delay at all: the deadline is
\* the start anchor itself.
DeadlineAtStart(sc) == sc.start_wall_time

\* game_scene.rs:329-340 -- Rule 1: the wall-clock deadline of the start delay
EffectiveDeadline(sc) ==
    IF sc.target_time # None
    THEN Min(sc.start_wall_time + START_DELAY_SECS, sc.start_wall_time + sc.target_time)
    ELSE sc.start_wall_time + START_DELAY_SECS

\* StartClock without the judge_pause_time test of line 345.
StartClockWheneverPaused(sc, w) ==
    IF TimePaused(sc.time)
    THEN IF sc.target_time # None
         THEN LET seek_pos == Max(sc.target_time - SEEK_OFFSET, 0) IN
              [sc EXCEPT !.time = TimeResume(TimeSeekTo(sc.time, seek_pos, w), w),
                         !.audio = AudioPlay(seek_pos, w)]
         ELSE [sc EXCEPT !.time = TimeResume(sc.time, w),
                         !.audio = AudioPlay(0, w)]
    ELSE sc

\* StartClock without the seek of game_scene.rs:347-351: the clock and the
\* audio always start at 0.
StartClockAtZero(sc, w) ==
    IF TimePaused(sc.time) /\ sc.judge_pause_time = None
    THEN [sc EXCEPT !.time = TimeResume(TimeSeekTo(sc.time, 0, w), w),
                    !.audio = AudioPlay(0, w)]
    ELSE sc

\* game_scene.rs:345-356 -- the delay has elapsed: start the clock
StartClock(sc, w) ==
    IF TimePaused(sc.time) /\ sc.judge_pause_time = None
    THEN IF sc.target_time # None
         THEN LET seek_pos == Max(sc.target_time - SEEK_OFFSET, 0) IN
              [sc EXCEPT !.time = TimeResume(TimeSeekTo(sc.time, seek_pos, w), w),
                         !.audio = AudioPlay(seek_pos, w)]
         ELSE [sc EXCEPT !.time = TimeResume(sc.time, w),
                         !.audio = AudioPlay(0, w)]
    ELSE sc

\* The resume of game_scene.rs:361-381 without the call of line 369: the
\* notes passed before resume_time stay NotJudged.
ResumeWithoutClear(sc, w) ==
    IF sc.unpause_signal = None THEN sc
    ELSE IF sc.judge_pause_time = None THEN [sc EXCEPT !.unpause_signal = None]
    ELSE LET resume_time == Max(sc.judge_pause_time - REWIND_ON_RESUME, 0) IN
         [sc EXCEPT !.unpause_signal = None,
                    !.judge_pause_time = None,
                    !.time = TimeResume(TimeSeekTo(sc.time, resume_time, w), w),
                    !.audio = AudioPlay(resume_time, w)]

\* The resume of game_scene.rs:361-381 that looks at the unpause signal only
\* while paused for judge: a signal that finds the scene playing is kept.
ResumeKeepsSignal(sc, w) ==
    IF sc.unpause_signal = None \/ sc.judge_pause_time = None THEN sc
    ELSE LET resume_time == Max(sc.judge_pause_time - REWIND_ON_RESUME, 0) IN
         [sc EXCEPT !.unpause_signal = None,
                    !.judge_pause_time = None,
                    !.time = TimeResume(TimeSeekTo(sc.time, resume_time, w), w),
                    !.judge = IF sc.chart_renderer
                              THEN clear_stale_notes(sc.chart, sc.judge, resume_time)
                              ELSE sc.judge,
                    !.audio = AudioPlay(resume_time, w)]

\* game_scene.rs:361-381 -- take the unpause signal; if the scene is paused
\* for judge, resume REWIND_ON_RESUME earlier and clear the stale notes
ResumeWithRewind(sc, w) ==
    IF sc.unpause_signal = None THEN sc
    ELSE IF sc.judge_pause_time = None THEN [sc EXCEPT !.unpause_signal = None]
    ELSE LET resume_time == Max(sc.judge_pause_time - REWIND_ON_RESUME, 0) IN
         [sc EXCEPT !.unpause_signal = None,
                    !.judge_pause_time = None,
                    !.time = TimeResume(TimeSeekTo(sc.time, resume_time, w), w),
                    !.judge = IF sc.chart_renderer
                              THEN clear_stale_notes(sc.chart, sc.judge, resume_time)
                              ELSE sc.judge,
                    !.audio = AudioPlay(resume_time, w)]

\* game_scene.rs:543-599 -- render_touches: an active touch not updated for
\* TOUCH_TIMEOUT starts fading at t; a touch that ended more than
\* TOUCH_FADE_TIME ago is removed.  fading_touches holds the end times.
render_touches(sc, t) ==
    LET stale == sc.active_touches # << >> /\ t - sc.active_touches[1].last_update > TOUCH_TIMEOUT
        fading == IF stale THEN Append(sc.fading_touches, t) ELSE sc.fading_touches
    IN [sc EXCEPT !.active_touches = IF stale THEN << >> ELSE @,
                  !.fading_touches = SelectSeq(fading, LAMBDA end : ~(t > end + TOUCH_FADE_TIME))]

\* game_scene.rs:383-498 -- the frame proper: chart update, judge pass,
\* hitsounds, particles, Rule 3 (strict pause), touch overlay
DrawFrame(sc, w) ==
    LET current_time == IF sc.judge_pause_time # None THEN sc.judge_pause_time
                        ELSE TimeNow(sc.time, w)
    IN
    IF ~sc.chart_renderer
    THEN [scene |-> render_touches(sc, current_time),
          frame |-> [NoFrame EXCEPT !.kind = "full", !.now = w, !.time = current_time]]
    ELSE LET dt == current_time - sc.cr_time
             u == update_judges(sc.chart, sc.judge, sc.pending_judges, current_time, dt)
             sc1 == [sc EXCEPT !.cr_time = current_time,
                               !.judge = u.judge,
                               !.pending_judges = u.queue]
             sc2 == IF sc1.judge_pause_time = None
                       /\ has_unjudged(sc1.chart, sc1.judge, current_time)
                    THEN [sc1 EXCEPT !.judge_pause_time = current_time,
                                     !.time = TimePause(sc1.time, w),
                                     !.audio = [sc1.audio EXCEPT !.playing = FALSE]]
                    ELSE sc1
         IN [scene |-> render_touches(sc2, current_time),
             frame |-> [NoFrame EXCEPT !.kind = "full", !.now = w, !.time = current_time,
                                   !.events = u.events, !.drained = u.drained,
                                   !.hitsounds = Hitsounds(u.events),
                                   !.particles = Particles(u.events)]]

\* The timestamps a frame callback can carry: the clock of a started scene
\* with a canvas moves on from one frame to the next, up to the horizon.
FrameTimes ==
    IF scene.start_wall_time # None /\ scene.render_ctx
    THEN {wall + d : d \in {d \in TickSteps :
              wall + d <= MaxWall}}
    ELSE {wall}

\* game_scene.rs:313-504 -- render(now)
render(sc, now) ==
    IF ~sc.render_ctx
    THEN [scene |-> sc, frame |-> [NoFrame EXCEPT !.kind = "headless"]]
    ELSE IF sc.start_wall_time = None
    THEN [scene |-> sc, frame |-> [NoFrame EXCEPT !.kind = "not_started", !.now = now]]
    ELSE IF now < EffectiveDeadline(sc)
    THEN [scene |-> sc, frame |-> [NoFrame EXCEPT !.kind = "delay", !.now = now]]
    ELSE DrawFrame(ResumeWithRewind(StartClock(sc, now), now), now)

\* The Hold note of TestChart, as line and note index.
HoldNote == [line_idx |-> 1, note_idx |-> 2]

\* The history of the Hold note after a frame at chart time t emitted evs:
\* t0 is the time of the frame that started the hold, ticks and completes
\* count its HoldTick and HoldComplete events, late counts whatever was
\* emitted for it after it had completed.
RECURSIVE Logged(_, _, _)
Logged(log, evs, t) ==
    IF evs = << >> THEN log
    ELSE LET e == Head(evs)
             next ==
                IF e.line_idx # HoldNote.line_idx \/ e.note_idx # HoldNote.note_idx THEN log
                ELSE IF log.completes > 0 THEN [log EXCEPT !.late = @ + 1]
                ELSE IF e.kind = "HoldStart" THEN [NoHoldLog EXCEPT !.t0 = t]
                ELSE IF e.kind = "HoldTick" THEN [log EXCEPT !.ticks = @ + 1]
                ELSE IF e.kind = "HoldComplete" THEN [log EXCEPT !.completes = @ + 1]
                ELSE log
         IN Logged(next, Tail(evs), t)

Render ==
    /\ \E now \in FrameTimes :
          /\ wall' = now
          /\ LET r == render(scene, now) IN
               /\ scene' = r.scene
               /\ frame' = r.frame
               /\ hold_log' = Logged(hold_log, r.frame.events, r.frame.time)
    /\ UNCHANGED <<ntouch, nsn>>
    /\ UNCHANGED nonSceneVars

NextScene ==
    \/ Tick
    \/ AttachCanvas
    \/ DetachCanvas
    \/ LoadChart
    \/ Start
    \/ PushJudges
    \/ PushTouches
    \/ Render

\* ========================================================================
\* GameMonitor: the dispatcher and its registry of scenes
\* ========================================================================
Players == {1, 2}

LiveEv(kind, player, arg) == [kind |-> kind, player |-> player, arg |-> arg]

\* The LiveEvents the proxy can deliver (monitor-common live.rs); arg is the
\* user list of a join response, the time of the last touch frame, the
\* judge batch, the room state or the chart id.
MonEvents ==
    {LiveEv("JoinOk", 0, {1, 2}), LiveEv("JoinErr", 0, 0), LiveEv("Leave", 0, 0),
     LiveEv("StateChange", 0, "Playing"), LiveEv("StateChange", 0, "WaitingForReady"),
     LiveEv("SelectChart", 0, 1)}
    \cup {LiveEv("UserJoin", p, 0) : p \in Players}
    \cup {LiveEv("UserLeave", p, 0) : p \in Players}
    \cup {LiveEv("Touches", p, 20) : p \in Players}
    \cup {LiveEv("Judges", p, <<JudgeEv(0, 0, 5, "Perfect")>>) : p \in Players}

\* game_monitor.rs:109-121 -- GameMonitor::new
NewMonitor ==
    [scenes |-> << >>, selected_chart_id |-> None, chart_data |-> FALSE,
     pending_chart |-> FALSE, fetching |-> 0]

InitMonitor ==
    /\ mon = NewMonitor
    /\ event_queue = << >>
    /\ timestamp = 0
    /\ nev = 0

\* game_monitor.rs:143-145, 255-257, 315-317 -- scenes.entry(id).or_insert_with(new_headless)
EnsureScenes(m, users, w) ==
    [m EXCEPT !.scenes = [q \in DOMAIN m.scenes \cup users |->
                             IF q \in DOMAIN m.scenes THEN m.scenes[q]
                             ELSE NewHeadless(w)]]

\* A Leave that leaves the registry as it is.
KeepScenes(m) == m

\* game_monitor.rs:269-270 -- scenes.clear(), selected_chart_id = None
ClearScenes(m) == [m EXCEPT !.scenes = << >>, !.selected_chart_id = None]

\* game_monitor.rs:177-181 -- destroy_scene
destroy_scene(m, p) ==
    [m EXCEPT !.scenes = [q \in DOMAIN m.scenes \ {p} |-> m.scenes[q]]]

\* game_monitor.rs:184-188 -- start_all_scenes
start_all_scenes(m, w) ==
    [m EXCEPT !.scenes = [q \in DOMAIN m.scenes |-> start(m.scenes[q], w)]]

\* Touch frames handed to every scene of the registry.
TouchesToAll(m, p, t) ==
    [m EXCEPT !.scenes = [q \in DOMAIN m.scenes |-> push_touches(m.scenes[q], t)]]

\* game_monitor.rs:323-330 -- LiveEvent::Touches
DispatchTouches(m, p, t) ==
    IF p \in DOMAIN m.scenes
    THEN [m EXCEPT !.scenes[p] = push_touches(@, t)]
    ELSE m

\* game_monitor.rs:331-338 -- LiveEvent::Judges
DispatchJudges(m, p, judges) ==
    IF p \in DOMAIN m.scenes
    THEN [m EXCEPT !.scenes[p] = push_judges(@, judges)]
    ELSE m

\* game_monitor.rs:227-346 -- one arm of the match in tick; w is the wall
\* clock at that moment.
Dispatch(m, e, w) ==
    CASE e.kind = "JoinOk" -> EnsureScenes(m, e.arg, w)
      [] e.kind = "JoinErr" -> m
      [] e.kind = "Leave" -> ClearScenes(m)
      [] e.kind = "StateChange" ->
            IF e.arg = "Playing" THEN start_all_scenes(m, w)
            ELSE IF e.arg = "WaitingForReady" /\ m.selected_chart_id # None
            THEN [m EXCEPT !.fetching = @ + 1]
            ELSE m
      [] e.kind = "UserJoin" -> EnsureScenes(m, {e.player}, w)
      [] e.kind = "UserLeave" -> destroy_scene(m, e.player)
      [] e.kind = "Touches" -> DispatchTouches(m, e.player, e.arg)
      [] e.kind = "Judges" -> DispatchJudges(m, e.player, e.arg)
      [] e.kind = "SelectChart" -> [m EXCEPT !.selected_chart_id = e.arg]

RECURSIVE DispatchAll(_, _, _)
DispatchAll(m, q, w) ==
    IF q = << >> THEN m ELSE DispatchAll(Dispatch(m, Head(q), w), Tail(q), w)

\* game_monitor.rs:192-200 -- GameMonitor::load_chart
MonitorLoadChart(m, w) ==
    [m EXCEPT !.chart_data = TRUE,
              !.scenes = [q \in DOMAIN m.scenes |-> load_chart(m.scenes[q], w)]]

\* game_monitor.rs:215-357 -- tick(timestamp)
tick(m, q, w) ==
    LET loaded == IF m.pending_chart
                  THEN MonitorLoadChart([m EXCEPT !.pending_chart = FALSE], w)
                  ELSE m
        handled == DispatchAll(loaded, q, w)
    IN [handled EXCEPT !.scenes =
           [p \in DOMAIN handled.scenes |-> render(handled.scenes[p], w).scene]]

\* game_monitor.rs:72-88 -- onmessage: a decoded LiveEvent is queued.
OnMessage ==
    /\ nev < MaxEvents
    /\ \E e \in MonEvents : event_queue' = Append(event_queue, e)
    /\ nev' = nev + 1
    /\ UNCHANGED <<mon, timestamp>>
    /\ UNCHANGED nonMonVars

\* game_monitor.rs:287-303 -- the task spawned on WaitingForReady finishes:
\* the chart is parked in pending_chart, or the download failed.
ChartFetched ==
    /\ mon.fetching > 0
    /\ \E ok \in BOOLEAN :
          mon' = [mon EXCEPT !.fetching = @ - 1,
                             !.pending_chart = IF ok THEN TRUE ELSE @]
    /\ UNCHANGED <<event_queue, timestamp, nev>>
    /\ UNCHANGED nonMonVars

\* Wall-clock time between two calls of tick.
MonitorTickSteps == {60}

\* game_monitor.rs:215-357 -- the animation frame callback calls tick.
MonitorTick ==
    /\ \E d \in MonitorTickSteps :
          /\ timestamp + d <= MaxWall
          /\ timestamp' = timestamp + d
          /\ mon' = tick(mon, event_queue, timestamp + d)
    /\ event_queue' = << >>
    /\ UNCHANGED nev
    /\ UNCHANGED nonMonVars

\* game_monitor.rs:141-159 -- attach_canvas(user_id, canvas_id); the canvas
\* may not exist, then the scene stays headless.
MonitorAttachCanvas(p, found) ==
    /\ LET m1 == EnsureScenes(mon, {p}, timestamp)
           sc1 == IF m1.chart_data /\ ~m1.scenes[p].chart_renderer
                  THEN load_chart(m1.scenes[p], timestamp) ELSE m1.scenes[p]
           sc2 == IF found THEN attach_canvas(sc1, timestamp) ELSE sc1
       IN mon' = [m1 EXCEPT !.scenes[p] = sc2]
    /\ UNCHANGED <<event_queue, timestamp, nev>>
    /\ UNCHANGED nonMonVars

\* game_monitor.rs:162-167 -- detach_canvas(user_id)
MonitorDetachCanvas(p) ==
    /\ p \in DOMAIN mon.scenes
    /\ mon' = [mon EXCEPT !.scenes[p] = detach_canvas(@)]
    /\ UNCHANGED <<event_queue, timestamp, nev>>
    /\ UNCHANGED nonMonVars

NextMonitor ==
    \/ OnMessage
    \/ ChartFetched
    \/ MonitorTick
    \/ \E p \in Players : \E found \in BOOLEAN : MonitorAttachCanvas(p, found)
    \/ \E p \in Players : MonitorDetachCanvas(p)

\* ---- properties of the scene ----
\* game_scene.rs:383 -- the time a frame taken at wall-clock w would show
CurrentTime(sc, w) ==
    IF sc.judge_pause_time # None THEN sc.judge_pause_time ELSE TimeNow(sc.time, w)

\* A step that is a render call of a started scene with a canvas: the only
\* step that moves the wall clock while a canvas is attached.
RenderStep == scene.render_ctx /\ wall' # wall

\* C3: once Rule 3 has paused the scene at paused_time, and while no judge
\* batch has arrived (unpause_signal is empty) and the chart is not reloaded,
\* the pause stays: judge_pause_time keeps its value, the clock stays paused
\* (the start-delay logic does not restart it) and every frame drawn shows
\* current_time = paused_time.
C3_PauseStays ==
    [][ (/\ scene.judge_pause_time # None
         /\ scene.unpause_signal = None
         /\ scene'.gen = scene.gen)
        => (/\ scene'.judge_pause_time = scene.judge_pause_time
            /\ TimePaused(scene'.time)
            /\ (frame'.kind = "full" => frame'.time = scene.judge_pause_time)) ]_vars

\* A frame drawn after the one in which Rule 3 fired, still paused.
C3_Witness ==
    /\ scene.judge_pause_time # None
    /\ scene.unpause_signal = None
    /\ frame.kind = "full"
    /\ frame.time = scene.judge_pause_time
    /\ frame.now > scene.time.pause_time
    /\ scene.target_time # None

\* C4: when the scene is paused for judge at paused_time and a non-empty
\* judge batch has then been pushed, the next render call clears the pause,
\* seeks the clock to max(paused_time - 1.000, 0) and leaves it running, so
\* the frame it draws shows a current_time between that value and
\* paused_time.
C4_NextRenderResumes ==
    [][ (/\ scene.judge_pause_time # None
         /\ scene.unpause_signal # None
         /\ RenderStep)
        => (/\ scene'.judge_pause_time = None
            /\ ~TimePaused(scene'.time)
            /\ TimeNow(scene'.time, wall') = Max(scene.judge_pause_time - REWIND_ON_RESUME, 0)
            /\ frame'.kind = "full"
            /\ frame'.time >= Max(scene.judge_pause_time - REWIND_ON_RESUME, 0)
            /\ frame'.time <= scene.judge_pause_time) ]_vars

SnOf(q) == [i \in 1..Len(q) |-> q[i].sn]
Increasing(q) == \A i \in 1..Len(q) : \A j \in 1..Len(q) : i < j => q[i] < q[j]

\* C5: within one scene the pending judge events leave the queue in the
\* order they were pushed: a render call removes a prefix of the queue and
\* nothing else, every event it removes has a time not after the frame's
\* current_time, and what it leaves stays queued in the same order.
C5_AppliedInOrderWhenDue ==
    [][ /\ Increasing(SnOf(scene'.pending_judges))
        /\ RenderStep =>
              /\ SnOf(scene.pending_judges)
                    = SnOf(frame'.drained) \o SnOf(scene'.pending_judges)
              /\ \A i \in 1..Len(frame'.drained) :
                    /\ frame'.kind = "full"
                    /\ frame'.drained[i].time <= frame'.time ]_vars

\* A frame that applied one event and left a later one, ahead of the clock,
\* in the queue.
C5_Witness ==
    /\ frame.kind = "full"
    /\ Len(frame.drained) >= 1
    /\ Len(scene.pending_judges) >= 1
    /\ scene.render_ctx
    /\ Head(scene.pending_judges).time > frame.time

NumParticles(fr, l, n, j) ==
    Cardinality({i \in 1..Len(fr.particles) :
                    /\ fr.particles[i].line_idx = l
                    /\ fr.particles[i].note_idx = n
                    /\ fr.particles[i].j = j})
NumHitsounds(fr, l, n) ==
    Cardinality({i \in 1..Len(fr.hitsounds) : fr.hitsounds[i] = <<l, n>>})

\* The frame fr, leaving the scene as sc, applied the Perfect event e: the
\* note is Judged(e.time, Perfect), with one Perfect particle and one hitsound.
AppliedPerfect(sc, fr, e) ==
    LET l == e.line_id + 1
        n == e.note_id + 1
    IN /\ fr.kind = "full"
       /\ sc.judge[l][n] = Judged(e.time, "Perfect")
       /\ NumParticles(fr, l, n, "Perfect") = 1
       /\ NumHitsounds(fr, l, n) = 1

\* The scene is playing: a chart is loaded and the clock has been started
\* (it runs, or Rule 3 holds it).
Playing(sc) ==
    /\ sc.chart_renderer
    /\ sc.start_wall_time # None
    /\ (~TimePaused(sc.time) \/ sc.judge_pause_time # None)

SameNote(e, f) == e.line_id = f.line_id /\ e.note_id = f.note_id
NoteExists(sc, e) ==
    /\ e.line_id + 1 \in 1..Len(sc.chart)
    /\ e.note_id + 1 \in 1..Len(sc.chart[e.line_id + 1])

EventsFor(fr, l, n) ==
    {i \in 1..Len(fr.events) : fr.events[i].line_idx = l /\ fr.events[i].note_idx = n}

\* C8: Judged is terminal: while the chart stays loaded, a note whose status
\* is Judged keeps that status, value included, through every step, and no
\* frame drawn afterwards carries an event for it.
C8_JudgedIsTerminal ==
    [][ scene'.gen = scene.gen =>
          \A l \in 1..Len(scene.judge) : \A n \in 1..Len(scene.judge[l]) :
              scene.judge[l][n].s = "Judged" =>
                  /\ scene'.judge[l][n] = scene.judge[l][n]
                  /\ RenderStep => EventsFor(frame', l, n) = {} ]_vars

\* ========================================================================
\* Chart cache
\* ========================================================================
Req == 1..NumReq
NoFile == [cu |-> 0, data |-> 0]
ChartFile(cu, data) == [cu |-> cu, data |-> data]

NewRequest ==
    [pc |-> "idle", cu |-> 0, role |-> "none", acq |-> "none", hitBin |-> NoFile,
     dl |-> "none", data |-> 0, ndl |-> 0, sub |-> 0, chan |-> "none",
     res |-> "none", served |-> 0, conc |-> {}]

\* The cache directory found at startup: empty, a complete entry, or a meta
\* whose companion .bin is gone (the CacheCorruption input).
CacheDir == {<<0, NoFile>>, <<1, ChartFile(1, 1)>>, <<1, NoFile>>}

InitCacheWith(dirs) ==
    /\ upstreamVer = 1
    /\ \E d \in dirs :
          /\ meta = d[1]
          /\ bin = d[2]
    /\ binTmp = NoFile
    /\ metaLock = 0
    /\ in_flight = 0
    /\ rq = [r \in Req |-> NewRequest]

\* acquire(cache_dir, id, chart_updated): the decision taken under the flock.
acquire(m, chart_updated) ==
    IF m # 0 /\ m = chart_updated THEN "hit" ELSE "miss"

Others(r) == Req \ {r}
Started(r) == rq[r].pc # "idle"
Done(r) == rq[r].pc = "done"

\* chart.rs:48-58 -- the metadata request; chartUpdated is what upstream
\* reports at that moment.
FetchInfo(r) ==
    /\ rq[r].pc = "idle"
    /\ rq' = [rq EXCEPT ![r].pc = "check", ![r].cu = upstreamVer,
                        ![r].conc = {o \in Others(r) : Started(o) /\ ~Done(o)}]
    /\ UNCHANGED <<upstreamVer, meta, bin, binTmp, metaLock, in_flight>>
    /\ UNCHANGED nonCacheVars

\* chart.rs:50-57 -- the metadata request fails: the handler returns Err.
FetchInfoFail(r) ==
    /\ rq[r].pc = "idle"
    /\ rq' = [rq EXCEPT ![r].pc = "done", ![r].res = "err",
                        ![r].conc = {o \in Others(r) : Started(o) /\ ~Done(o)}]
    /\ UNCHANGED <<upstreamVer, meta, bin, binTmp, metaLock, in_flight>>
    /\ UNCHANGED nonCacheVars

\* chart.rs:60-64 -- cache::check: take the flock on {id}.meta, read the meta,
\* compare (acquire), release; on a hit read {id}.bin. A hit whose .bin cannot
\* be read is no data, so the request goes on as a miss.
CacheCheck(r) ==
    /\ rq[r].pc = "check"
    /\ metaLock = 0
    /\ LET a == acquire(meta, rq[r].cu) IN
         IF a = "hit" /\ bin # NoFile
         THEN rq' = [rq EXCEPT ![r].pc = "done", ![r].acq = a, ![r].hitBin = bin,
                             ![r].role = "hit", ![r].res = "ok",
                             ![r].served = bin.data]
         ELSE rq' = [rq EXCEPT ![r].pc = "inflight", ![r].acq = a,
                             ![r].hitBin = bin]
    /\ UNCHANGED <<upstreamVer, meta, bin, binTmp, metaLock, in_flight>>
    /\ UNCHANGED nonCacheVars

\* chart.rs:66-88 -- under the in_flight mutex: subscribe to the sender that
\* is registered for the id, or register as the worker.
CheckInFlight(r) ==
    /\ rq[r].pc = "inflight"
    /\ IF in_flight # 0
       THEN /\ rq' = [rq EXCEPT ![r].pc = "wait", ![r].role = "follower",
                               ![r].sub = in_flight]
            /\ UNCHANGED in_flight
       ELSE /\ rq' = [rq EXCEPT ![r].pc = "download", ![r].role = "worker"]
            /\ in_flight' = r
    /\ UNCHANGED <<upstreamVer, meta, bin, binTmp, metaLock>>
    /\ UNCHANGED nonCacheVars

\* Download with a retry: a failed download is tried again by the same request.
DownloadRetry(r) ==
    /\ rq[r].pc = "download"
    /\ \E ok \in BOOLEAN :
          rq' = [rq EXCEPT ![r].pc = IF ok \/ rq[r].ndl >= 1 THEN "cleanup" ELSE "download",
                           ![r].dl = IF ok THEN "ok" ELSE "err",
                           ![r].data = IF ok THEN upstreamVer ELSE 0,
                           ![r].ndl = @ + 1]
    /\ UNCHANGED <<upstreamVer, meta, bin, binTmp, metaLock, in_flight>>
    /\ UNCHANGED nonCacheVars

\* chart.rs:91 -- process_chart_from_api: download and parse; either may fail.
Download(r) ==
    /\ rq[r].pc = "download"
    /\ \E ok \in BOOLEAN :
          rq' = [rq EXCEPT ![r].pc = "cleanup",
                           ![r].dl = IF ok THEN "ok" ELSE "err",
                           ![r].data = IF ok THEN upstreamVer ELSE 0,
                           ![r].ndl = @ + 1]
    /\ UNCHANGED <<upstreamVer, meta, bin, binTmp, metaLock, in_flight>>
    /\ UNCHANGED nonCacheVars

\* RemoveInFlight that leaves the entry in place when the download failed.
RemoveInFlightOnSuccess(r) ==
    /\ rq[r].pc = "cleanup"
    /\ in_flight' = IF rq[r].dl = "ok" THEN 0 ELSE in_flight
    /\ rq' = [rq EXCEPT ![r].pc = IF rq[r].dl = "ok" THEN "write" ELSE "send_err"]
    /\ UNCHANGED <<upstreamVer, meta, bin, binTmp, metaLock>>
    /\ UNCHANGED nonCacheVars

\* chart.rs:94-97 -- remove the in-flight entry of the id, keeping its sender.
RemoveInFlight(r) ==
    /\ rq[r].pc = "cleanup"
    /\ in_flight' = 0
    /\ rq' = [rq EXCEPT ![r].pc = IF rq[r].dl = "ok" THEN "write" ELSE "send_err"]
    /\ UNCHANGED <<upstreamVer, meta, bin, binTmp, metaLock>>
    /\ UNCHANGED nonCacheVars

\* chart.rs:101 + cache.rs:39-55,74-84 -- cache::write: take the flock, then
\* serialize the chart into {id}.bin.tmp.
WriteTmp(r) ==
    /\ rq[r].pc = "write"
    /\ metaLock = 0
    /\ metaLock' = r
    /\ binTmp' = ChartFile(rq[r].cu, rq[r].data)
    /\ rq' = [rq EXCEPT ![r].pc = "rename"]
    /\ UNCHANGED <<upstreamVer, meta, bin, in_flight>>
    /\ UNCHANGED nonCacheVars

\* cache.rs:85 -- rename {id}.bin.tmp to {id}.bin.
WriteRename(r) ==
    /\ rq[r].pc = "rename"
    /\ bin' = binTmp
    /\ binTmp' = NoFile
    /\ rq' = [rq EXCEPT ![r].pc = "truncate"]
    /\ UNCHANGED <<upstreamVer, meta, metaLock, in_flight>>
    /\ UNCHANGED nonCacheVars

\* cache.rs:88-89 -- truncate {id}.meta through the locked handle.
WriteTruncate(r) ==
    /\ rq[r].pc = "truncate"
    /\ meta' = 0
    /\ rq' = [rq EXCEPT ![r].pc = "meta"]
    /\ UNCHANGED <<upstreamVer, bin, binTmp, metaLock, in_flight>>
    /\ UNCHANGED nonCacheVars

\* cache.rs:90-96 -- write the new meta; the flock is released when the
\* handle is dropped at the end of write.
WriteMeta(r) ==
    /\ rq[r].pc = "meta"
    /\ meta' = rq[r].cu
    /\ metaLock' = 0
    /\ rq' = [rq EXCEPT ![r].pc = "send_ok"]
    /\ UNCHANGED <<upstreamVer, bin, binTmp, in_flight>>
    /\ UNCHANGED nonCacheVars

\* A broadcast send reaches every receiver subscribed to that sender.
Broadcast(q, w, msg) ==
    [f \in Req |-> IF f # w /\ q[f].pc = "wait" /\ q[f].sub = w /\ q[f].chan = "none"
                   THEN [q[f] EXCEPT !.chan = msg] ELSE q[f]]

\* chart.rs:106-108,117 -- tell the followers, return the chart.
SendOk(r) ==
    /\ rq[r].pc = "send_ok"
    /\ rq' = Broadcast([rq EXCEPT ![r].pc = "done", ![r].res = "ok",
                                  ![r].served = rq[r].data], r, "ok")
    /\ UNCHANGED <<upstreamVer, meta, bin, binTmp, metaLock, in_flight>>
    /\ UNCHANGED nonCacheVars

\* SendErr without the broadcast: the error is returned to the worker only.
SendErrNoBroadcast(r) ==
    /\ rq[r].pc = "send_err"
    /\ rq' = [rq EXCEPT ![r].pc = "done", ![r].res = "err"]
    /\ UNCHANGED <<upstreamVer, meta, bin, binTmp, metaLock, in_flight>>
    /\ UNCHANGED nonCacheVars

\* chart.rs:110-117 -- broadcast the error, return it.
SendErr(r) ==
    /\ rq[r].pc = "send_err"
    /\ rq' = Broadcast([rq EXCEPT ![r].pc = "done", ![r].res = "err"], r, "err")
    /\ UNCHANGED <<upstreamVer, meta, bin, binTmp, metaLock, in_flight>>
    /\ UNCHANGED nonCacheVars

\* chart.rs:74-82 -- a follower receives the worker's message: on Ok it reads
\* {id}.bin from disk, on Err it returns an error.
FollowerRecv(r) ==
    /\ rq[r].pc = "wait"
    /\ rq[r].chan # "none"
    /\ IF rq[r].chan = "ok" /\ bin # NoFile
       THEN rq' = [rq EXCEPT ![r].pc = "done", ![r].res = "ok", ![r].served = bin.data]
       ELSE rq' = [rq EXCEPT ![r].pc = "done", ![r].res = "err"]
    /\ UNCHANGED <<upstreamVer, meta, bin, binTmp, metaLock, in_flight>>
    /\ UNCHANGED nonCacheVars

\* The chart is updated upstream: chartUpdated changes.
UpstreamUpdate ==
    /\ upstreamVer < MaxVer
    /\ upstreamVer' = upstreamVer + 1
    /\ UNCHANGED <<meta, bin, binTmp, metaLock, in_flight, rq>>
    /\ UNCHANGED nonCacheVars

NextCache ==
    \/ \E r \in Req : FetchInfo(r)
    \/ \E r \in Req : FetchInfoFail(r)
    \/ \E r \in Req : CacheCheck(r)
    \/ \E r \in Req : CheckInFlight(r)
    \/ \E r \in Req : Download(r)
    \/ \E r \in Req : RemoveInFlight(r)
    \/ \E r \in Req : WriteTmp(r)
    \/ \E r \in Req : WriteRename(r)
    \/ \E r \in Req : WriteTruncate(r)
    \/ \E r \in Req : WriteMeta(r)
    \/ \E r \in Req : SendOk(r)
    \/ \E r \in Req : SendErr(r)
    \/ \E r \in Req : FollowerRecv(r)
    \/ UpstreamUpdate

\* ---- faults: dropped handlers, a stopped process, stale upstream data ----
\* The await points of handle_chart_request after the metadata request:
\* chart.rs:68 (mutex), 74 (recv), 91 (download), 95 (mutex).
AwaitPoints == {"inflight", "wait", "download", "cleanup"}

\* chart.rs:39-118 -- the client goes away and the handler's future is
\* dropped at an await point; nothing of lines 94-115 runs for it.
Cancel(r) ==
    /\ rq[r].pc \in AwaitPoints
    /\ rq' = [rq EXCEPT ![r].pc = "done", ![r].res = "cancelled"]
    /\ UNCHANGED <<upstreamVer, meta, bin, binTmp, metaLock, in_flight>>
    /\ UNCHANGED nonCacheVars

\* The proxy process stops: every running request ends, the in-flight map
\* and the flock go with the process, the files stay as they are.
Crash ==
    /\ \E r \in Req : Started(r) /\ ~Done(r)
    /\ rq' = [r \in Req |-> IF Started(r) /\ ~Done(r)
                            THEN [rq[r] EXCEPT !.pc = "done", !.res = "crashed"]
                            ELSE rq[r]]
    /\ metaLock' = 0
    /\ in_flight' = 0
    /\ UNCHANGED <<upstreamVer, meta, bin, binTmp>>
    /\ UNCHANGED nonCacheVars

\* chart.rs:57-58 -- chartUpdated is whatever the upstream API answers: an
\* earlier value can be reported again (a stale replica, a restored chart).
UpstreamRollback ==
    /\ upstreamVer > 1
    /\ upstreamVer' = upstreamVer - 1
    /\ UNCHANGED <<meta, bin, binTmp, metaLock, in_flight, rq>>
    /\ UNCHANGED nonCacheVars

NextCacheFaults ==
    \/ NextCache
    \/ \E r \in Req : Cancel(r)
    \/ Crash
    \/ UpstreamRollback

\* A cache directory whose entries are complete.
CleanCacheDir == {<<0, NoFile>>, <<1, ChartFile(1, 1)>>}

EmptyCacheDir == {<<0, NoFile>>}

\* ========================================================================
\* monitor-common core: Anim<f32> (keyframe animation)
\* ========================================================================
\* Times and values are integers; a sampled value is the exact fraction
\* num / den (den > 0), or NotFinite where the f32 computation divides by 0.

MaxKeyframes == 3
KfTimes == {-1, 0, 1}
AnimTimes == {-2, -1, 0, 1, 2}

\* tween.rs:111-114 -- TWEEN_FUNCTIONS 0, 1, 2
Tweens == {"Hold", "Constant", "Linear"}

SortedTimes(n) == {s \in [1..n -> KfTimes] : \A i \in 1..n : \A j \in i..n : s[i] <= s[j]}

\* The keyframe lists an animation is built from: sorted by time (not
\* strictly), every keyframe with its own value, one tween per list.
KeyframeLists ==
    {[i \in 1..Len(s) |-> [time |-> s[i], value |-> 10 * i, tween |-> tw]] :
        s \in UNION {SortedTimes(n) : n \in 0..MaxKeyframes}, tw \in Tweens}

\* anim.rs:82-89 -- Anim::new; next is << >> for None, <<a>> for Some(a)
AnimNew(keyframes) == [time |-> 0, keyframes |-> keyframes, cursor |-> 0, next |-> << >>]

\* anim.rs:104-117 -- Anim::chain: each element becomes the next of the one
\* before it, the last has none
RECURSIVE chain(_)
chain(elements) ==
    IF elements = << >> THEN AnimNew(<< >>)
    ELSE IF Len(elements) = 1 THEN [elements[1] EXCEPT !.next = << >>]
    ELSE [elements[1] EXCEPT !.next = << chain(Tail(elements)) >>]

\* anim.rs:128-133 -- the forward scan; the cursor counts from 0, so
\* keyframes[cursor + 1] of the source is kfs[c + 2] here
RECURSIVE ScanForward(_, _, _)
ScanForward(kfs, c, time) ==
    IF c + 1 < Len(kfs) /\ ~(kfs[c + 2].time > time)
    THEN ScanForward(kfs, c + 1, time)
    ELSE c

\* anim.rs:134-136 -- the backward scan
RECURSIVE ScanBackward(_, _, _)
ScanBackward(kfs, c, time) ==
    IF c # 0 /\ kfs[c + 1].time > time
    THEN ScanBackward(kfs, c - 1, time)
    ELSE c

\* The forward scan testing keyframes[cursor] instead of keyframes[cursor + 1].
RECURSIVE ScanForwardOffByOne(_, _, _)
ScanForwardOffByOne(kfs, c, time) ==
    IF c < Len(kfs) /\ ~(kfs[c + 1].time > time)
    THEN ScanForwardOffByOne(kfs, c + 1, time)
    ELSE c

\* set_time whose forward scan is off by one.
SetTimeOffByOne(a, time) ==
    IF Len(a.keyframes) = 0 \/ time = a.time
    THEN [a EXCEPT !.time = time]
    ELSE [a EXCEPT !.cursor = ScanForwardOffByOne(a.keyframes, a.cursor, time),
                   !.time = time]

\* anim.rs:123-141 -- set_time: the early return of lines 124-127 comes
\* before the call on the chained animation
RECURSIVE set_time(_, _)
set_time(a, time) ==
    IF Len(a.keyframes) = 0 \/ time = a.time
    THEN [a EXCEPT !.time = time]
    ELSE [a EXCEPT !.cursor = ScanBackward(a.keyframes,
                                  ScanForward(a.keyframes, a.cursor, time), time),
                   !.time = time,
                   !.next = IF a.next = << >> THEN << >>
                            ELSE << set_time(a.next[1], time) >>]

Exactly(v) == [num |-> v, den |-> 1]
NotFinite == [num |-> 0, den |-> 0]
NoValue == [num |-> 0, den |-> -1]
\* The call did not return: the thread panicked.
Panicked == [num |-> 0, den |-> -2]

\* anim.rs:143-155 -- now_opt_inner, with T::tween of tween.rs:353-357 and
\* the three tweens: Hold is 0, Constant is 1, Linear is the progress itself
now_opt_inner(a) ==
    IF Len(a.keyframes) = 0 THEN NoValue
    ELSE IF a.cursor = Len(a.keyframes) - 1
    THEN Exactly(a.keyframes[a.cursor + 1].value)
    ELSE LET kf1 == a.keyframes[a.cursor + 1]
             kf2 == a.keyframes[a.cursor + 2]
             den == kf2.time - kf1.time
         IN CASE kf1.tween = "Hold" -> Exactly(kf1.value)
              [] kf1.tween = "Constant" -> Exactly(kf2.value)
              [] OTHER ->
                    IF den = 0 THEN NotFinite
                    ELSE [num |-> kf1.value * den + (kf2.value - kf1.value) * (a.time - kf1.time),
                          den |-> den]

\* tween.rs:346-357 -- Tweenable::add for f32: the impl for f32 defines tween
\* only, so add is the trait's default body, unimplemented!()
add(x, y) == Panicked

\* anim.rs:157-166 -- now_opt: the sample of this animation, added to the
\* unwrapped sample of the chained one when there is one
RECURSIVE now_opt(_)
now_opt(a) ==
    LET now == now_opt_inner(a) IN
    IF now = NoValue THEN NoValue
    ELSE IF a.next = << >> THEN now
    ELSE LET rest == now_opt(a.next[1]) IN
         IF rest = NoValue \/ rest = Panicked THEN Panicked
         ELSE add(now, rest)

IsValue(s, v) == s.den > 0 /\ s.num = v * s.den

InitAnimWith(keyframes) ==
    /\ anim = AnimNew(keyframes)
    /\ anim_t = << >>

AnimSetTime ==
    /\ \E t \in AnimTimes :
          /\ anim' = set_time(anim, t)
          /\ anim_t' = <<t>>
    /\ UNCHANGED nonAnimVars

NextAnim == AnimSetTime

\* ========================================================================
\* f32 arithmetic (IEEE 754 binary32, round to nearest, ties to even)
\* ========================================================================
\* A float is sign * m * 2^e with m = 0 or 2^23 <= m < 2^24.  Exponent
\* limits, subnormals, infinities and NaN are left out: the values of the
\* model stay far from them.

FZero == [s |-> 1, m |-> 0, e |-> 0]

RECURSIVE BitLen(_)
BitLen(n) == IF n = 0 THEN 0 ELSE 1 + BitLen(n \div 2)

\* The float nearest to s * (n + f) * 2^e, where 0 <= f < 1 and f > 0 iff sticky.
FRound(s, n, e, sticky) ==
    IF n = 0 THEN FZero
    ELSE LET k == BitLen(n) - 24 IN
         IF k <= 0 THEN [s |-> s, m |-> n * 2^(0 - k), e |-> e + k]
         ELSE LET q == n \div 2^k
                  r == n % 2^k
                  half == 2^(k - 1)
                  up == r > half \/ (r = half /\ (sticky \/ q % 2 = 1))
                  q1 == IF up THEN q + 1 ELSE q
              IN IF q1 = 2^24 THEN [s |-> s, m |-> 2^23, e |-> e + k + 1]
                 ELSE [s |-> s, m |-> q1, e |-> e + k]

FromInt(n) == FRound(IF n < 0 THEN -1 ELSE 1, IF n < 0 THEN 0 - n ELSE n, 0, FALSE)
FNeg(x) == [x EXCEPT !.s = 0 - x.s]

MagLess(x, y) ==
    IF y.m = 0 THEN FALSE
    ELSE IF x.m = 0 THEN TRUE
    ELSE x.e < y.e \/ (x.e = y.e /\ x.m < y.m)

FLess(x, y) ==
    IF x.m = 0 /\ y.m = 0 THEN FALSE
    ELSE IF x.m = 0 THEN y.s = 1
    ELSE IF y.m = 0 THEN x.s = -1
    ELSE IF x.s # y.s THEN x.s = -1
    ELSE IF x.s = 1 THEN MagLess(x, y) ELSE MagLess(y, x)

\* |x| + |y| and |x| - |y| for |x| >= |y| > 0, with the sign s: the smaller
\* operand is shifted under three guard bits, what falls off is sticky.
AddMag(s, x, y) ==
    LET d == x.e - y.e IN
    IF d >= 27 THEN [x EXCEPT !.s = s]
    ELSE FRound(s, x.m * 8 + (y.m * 8) \div 2^d, x.e - 3, (y.m * 8) % 2^d # 0)

SubMag(s, x, y) ==
    LET d == x.e - y.e IN
    IF d >= 27 THEN [x EXCEPT !.s = s]
    ELSE LET sticky == (y.m * 8) % 2^d # 0 IN
         FRound(s, x.m * 8 - (y.m * 8) \div 2^d - (IF sticky THEN 1 ELSE 0), x.e - 3, sticky)

FAdd(x, y) ==
    IF x.m = 0 THEN y
    ELSE IF y.m = 0 THEN x
    ELSE IF x.s = y.s
    THEN IF MagLess(x, y) THEN AddMag(x.s, y, x) ELSE AddMag(x.s, x, y)
    ELSE IF MagLess(x, y) THEN SubMag(y.s, y, x)
    ELSE IF MagLess(y, x) THEN SubMag(x.s, x, y)
    ELSE FZero

FSub(x, y) == FAdd(x, FNeg(y))

\* The 48-bit product of two 24-bit mantissas, from 12-bit halves.
FMul(x, y) ==
    IF x.m = 0 \/ y.m = 0 THEN FZero
    ELSE LET a1 == x.m \div 2^12
             a0 == x.m % 2^12
             b1 == y.m \div 2^12
             b0 == y.m % 2^12
             mid == a1 * b0 + a0 * b1
             low == (mid % 2^12) * 2^12 + a0 * b0
             hi == a1 * b1 + mid \div 2^12 + low \div 2^24
             lo == low % 2^24
         IN FRound(x.s * y.s, hi * 4 + lo \div 2^22, x.e + y.e + 22, lo % 2^22 # 0)

\* Long division: n more quotient bits of r / d after the quotient q.
RECURSIVE DivBits(_, _, _, _)
DivBits(q, r, d, n) ==
    IF n = 0 THEN [q |-> q, r |-> r]
    ELSE IF 2 * r >= d THEN DivBits(2 * q + 1, 2 * r - d, d, n - 1)
    ELSE DivBits(2 * q, 2 * r, d, n - 1)

FDiv(x, y) ==
    IF x.m = 0 THEN FZero
    ELSE LET qr == DivBits(x.m \div y.m, x.m % y.m, y.m, 26) IN
         FRound(x.s * y.s, qr.q, x.e - y.e - 26, qr.r # 0)

\* ========================================================================
\* Chart parsers: the parent relation of the judge lines, and fetch_pos
\* ========================================================================
\* A chart file is reduced to the parent field of each of its lines, as the
\* format writes it; lines are counted from 0 as in the source.

MaxLines == 3
MaxDepth == 4
Formats == {"Rpe", "Pec", "Pbc"}

\* What a file can hold: RPE writes -1 for "no parent" and the index
\* otherwise; PBC writes 0 for "no parent" and index + 1 otherwise; PEC has
\* no parent field.  MaxLines is an index no chart of the model has.
RawParents(format) ==
    CASE format = "Rpe" -> -1..MaxLines
      [] format = "Pbc" -> 0..(MaxLines + 1)
      [] OTHER -> {0}

ChartFiles ==
    {[format |-> f, raw |-> r] :
        f \in Formats,
        r \in UNION {[1..n -> -1..(MaxLines + 1)] : n \in 0..MaxLines}}

WellFormed(file) == \A i \in 1..Len(file.raw) : file.raw[i] \in RawParents(file.format)

\* rpe.rs:855-866 -- has_cycle; the result is the index found twice, or None
RECURSIVE has_cycle(_, _, _)
has_cycle(parents, line, visited) ==
    LET parent_index == parents[line + 1] IN
    IF parent_index = None THEN None
    ELSE IF \E k \in 1..Len(visited) : visited[k] = parent_index THEN parent_index
    ELSE IF parent_index < Len(parents)
    THEN has_cycle(parents, parent_index, Append(visited, parent_index))
    ELSE None

Accepted(parents) == [result |-> "accepted", parents |-> parents]
Rejected == [result |-> "error", parents |-> << >>]

\* rpe.rs:703-710 (the parent of a line) and 867-873 (the check of every line)
parse_rpe(raw) ==
    LET parents == [i \in 1..Len(raw) |-> IF raw[i] = -1 THEN None ELSE raw[i]] IN
    IF \E i \in 1..Len(raw) : has_cycle(parents, i - 1, <<i - 1>>) # None
    THEN Rejected
    ELSE Accepted(parents)

\* pbc.rs:201-204 (the parent of a line) and 248-260 (parse_pbc)
parse_pbc(raw) ==
    Accepted([i \in 1..Len(raw) |-> IF raw[i] = 0 THEN None ELSE raw[i] - 1])

\* pec.rs:202 -- every line of a PEC chart has parent None
parse_pec(raw) == Accepted([i \in 1..Len(raw) |-> None])

NotParsed(file) == [format |-> file.format, raw |-> file.raw, result |-> "none", parents |-> << >>]
Idle == [pc |-> "idle", line |-> None, depth |-> 0]

InitParseWith(file) ==
    /\ parse = NotParsed(file)
    /\ walk = Idle

\* ========================================================================
\* monitor-common core: BpmList
\* ========================================================================

F60 == FromInt(60)
FAbs(x) == [x EXCEPT !.s = 1]

\* The (beats, bpm) lists a BpmList is built from: not empty, sorted by
\* beats, bpm positive.
BpmRangeLists ==
    { << <<0, 130>> >>,
      << <<0, 120>>, <<2, 60>> >>,
      << <<0, 60>>, <<4, 175>>, <<8, 120>> >>,
      << <<0, 200>>, <<3, 200>>, <<3, 90>> >> }
BeatValues == {-1, 0, 1, 2, 3, 4, 5, 6, 7, 8, 9, 12, 600, 1115}

\* bpm.rs:55-64 -- the loop of BpmList::new from entry i on
RECURSIVE BpmElements(_, _, _, _, _)
BpmElements(ranges, i, time, last_beats, elements) ==
    IF i > Len(ranges) THEN elements
    ELSE LET now_beats == FromInt(ranges[i][1])
             bpm_i == FromInt(ranges[i][2])
             t == IF i = 1 THEN time
                  ELSE FAdd(time, FMul(FSub(now_beats, last_beats),
                                       FDiv(F60, FromInt(ranges[i - 1][2]))))
         IN BpmElements(ranges, i + 1, t, now_beats,
                        Append(elements, [beats |-> now_beats, time |-> t, bpm |-> bpm_i]))

\* bpm.rs:46-70 -- BpmList::new
BpmNew(ranges) ==
    IF ranges = << >>
    THEN [elements |-> << [beats |-> FZero, time |-> FZero, bpm |-> FromInt(120)] >>,
          cursor |-> 0]
    ELSE [elements |-> BpmElements(ranges, 1, FZero, FZero, << >>), cursor |-> 0]

Key(el, by) == IF by = "beats" THEN el.beats ELSE el.time

RECURSIVE SeekForward(_, _, _, _)
SeekForward(els, c, by, v) ==
    IF c + 1 < Len(els) /\ ~FLess(v, Key(els[c + 2], by))
    THEN SeekForward(els, c + 1, by, v)
    ELSE c

RECURSIVE SeekBackward(_, _, _, _)
SeekBackward(els, c, by, v) ==
    IF c # 0 /\ FLess(v, Key(els[c + 1], by))
    THEN SeekBackward(els, c - 1, by, v)
    ELSE c

\* bpm.rs:93-120 -- seek_by_beats and seek_by_time: forward, then backward
SeekCursor(l, by, v) == SeekBackward(l.elements, SeekForward(l.elements, l.cursor, by, v), by, v)

\* bpm.rs:73-77 -- time_at_beats: the cursor after the seek, and the time
time_at_beats(l, beats) ==
    LET c == SeekCursor(l, "beats", beats)
        el == l.elements[c + 1]
    IN [cursor |-> c,
        value |-> FAdd(el.time, FMul(FSub(beats, el.beats), FDiv(F60, el.bpm)))]

\* bpm.rs:85-89 -- beats_at_time: the cursor after the seek, and the beats
beats_at_time(l, time) ==
    LET c == SeekCursor(l, "time", time)
        el == l.elements[c + 1]
    IN [cursor |-> c,
        value |-> FAdd(el.beats, FDiv(FSub(time, el.time), FDiv(F60, el.bpm)))]

NoLookup == [pc |-> "none", beats |-> FZero, time |-> FZero, back |-> FZero]

InitBpmWith(ranges) ==
    /\ bpm = BpmNew(ranges)
    /\ bq = NoLookup

TimeAtBeats ==
    /\ \E b \in BeatValues :
          LET r == time_at_beats(bpm, FromInt(b)) IN
          /\ bpm' = [bpm EXCEPT !.cursor = r.cursor]
          /\ bq' = [pc |-> "time", beats |-> FromInt(b), time |-> r.value, back |-> FZero]
    /\ UNCHANGED nonBpmVars

BeatsAtTime ==
    /\ bq.pc = "time"
    /\ LET r == beats_at_time(bpm, bq.time) IN
       /\ bpm' = [bpm EXCEPT !.cursor = r.cursor]
       /\ bq' = [bq EXCEPT !.pc = "back", !.back = r.value]
    /\ UNCHANGED nonBpmVars

NextBpm ==
    \/ TimeAtBeats
    \/ BeatsAtTime

InitCore ==
    /\ InitAnimWith(<< >>)
    /\ InitParseWith([format |-> "Pec", raw |-> << >>])
    /\ InitBpmWith(<< >>)

\* chart/process.rs:108-135 -- the parser of the file's format
ParseChart ==
    /\ parse.result = "none"
    /\ LET r == CASE parse.format = "Rpe" -> parse_rpe(parse.raw)
                   [] parse.format = "Pbc" -> parse_pbc(parse.raw)
                   [] OTHER -> parse_pec(parse.raw)
       IN parse' = [parse EXCEPT !.result = r.result, !.parents = r.parents]
    /\ UNCHANGED walk
    /\ UNCHANGED nonParseVars

\* engine/chart.rs:30-41 -- fetch_pos(line_index) is called for a line of the chart
FetchPos ==
    /\ parse.result = "accepted"
    /\ walk.pc \in {"idle", "done"}
    /\ \E i \in 0..(Len(parse.parents) - 1) :
          walk' = [pc |-> "walking", line |-> i, depth |-> 0]
    /\ UNCHANGED parse
    /\ UNCHANGED nonParseVars

\* engine/chart.rs:31-33 -- one level of the recursion: lines[line_index]
\* panics for an index that is no line, a line without parent ends the
\* recursion, any other line recurses into its parent; the stack holds
\* MaxDepth frames.
FetchPosStep ==
    /\ walk.pc = "walking"
    /\ walk' = IF walk.line >= Len(parse.parents)
               THEN [walk EXCEPT !.pc = "panic"]
               ELSE IF parse.parents[walk.line + 1] = None
               THEN [walk EXCEPT !.pc = "done"]
               ELSE IF walk.depth >= MaxDepth
               THEN [walk EXCEPT !.pc = "stack_overflow"]
               ELSE [walk EXCEPT !.line = parse.parents[walk.line + 1],
                                 !.depth = @ + 1]
    /\ UNCHANGED parse
    /\ UNCHANGED nonParseVars

NextParse ==
    \/ ParseChart
    \/ FetchPos
    \/ FetchPosStep

\* ========================================================================
\* Room monitor (proxy): cached room state, cached events, /rooms/listen
\* ========================================================================
MaxRoomEvents == 3
MaxQuery == 2
RoomIds == {1, 2}

\* sn (history): the number of the room event, counted by the server.
RoomEvent(event_type, room, sn) ==
    [cmd |-> "RoomEvent", event_type |-> event_type, room |-> room, sn |-> sn]

\* asof (history): the number of room events the room list reflects.
RoomResponse(rooms, asof) == [cmd |-> "RoomResponse", rooms |-> rooms, asof |-> asof]

\* rooms/client.rs:98-111 -- ClientState as RoomMonitorClient::new builds it;
\* the monitor is connected before the server has any room.
InitRooms ==
    /\ mp = [rooms |-> {}, sn |-> 0]
    /\ room_wire = << >>
    /\ rmc = [room_result |-> [tx |-> "none", rx |-> << >>],
              cached_room_state |-> [rooms |-> {}, asof |-> 0],
              cached_events |-> << >>,
              pc |-> "idle", asked |-> 0, nquery |-> 0]
    /\ listener = << >>

\* The multiplayer server: something happens to a room and the monitor is
\* sent the RoomEvent (the receiving end is rooms/client.rs:279-284).
ServerRoomEvent ==
    /\ mp.sn < MaxRoomEvents
    /\ \E room \in RoomIds :
          LET event_type == IF room \in mp.rooms THEN "update_room" ELSE "create_room"
          IN /\ mp' = [rooms |-> mp.rooms \cup {room}, sn |-> mp.sn + 1]
             /\ room_wire' = Append(room_wire, RoomEvent(event_type, room, mp.sn + 1))
    /\ UNCHANGED <<rmc, listener>>
    /\ UNCHANGED nonRoomVars

\* The multiplayer server answers a QueryRoomInfo with its rooms as they are.
ServerRoomResponse ==
    /\ rmc.asked > 0
    /\ rmc' = [rmc EXCEPT !.asked = @ - 1]
    /\ room_wire' = Append(room_wire, RoomResponse(mp.rooms, mp.sn))
    /\ UNCHANGED <<mp, listener>>
    /\ UNCHANGED nonRoomVars

\* rooms/client.rs:79-84 -- ClientState::push_event: under the write lock of
\* cached_events, push the event and send it to every subscriber.
push_event(event) ==
    /\ rmc' = [rmc EXCEPT !.cached_events = Append(@, event)]
    /\ listener' = IF listener = << >> THEN listener
                   ELSE << [listener[1] EXCEPT !.update_stream = Append(@, event)] >>

\* rooms/client.rs:52-60 -- TaskResult::put: take the stored sender and send
\* through it; there may be none, and its receiver may be gone.
room_result_put(value) ==
    /\ rmc' = [rmc EXCEPT !.room_result =
                  IF @.tx = "live" THEN [tx |-> "none", rx |-> << value >>]
                  ELSE [tx |-> "none", rx |-> @.rx]]
    /\ UNCHANGED listener

\* rooms/client.rs:259-290 -- process: the handler of the Stream, one
\* ServerCommand at a time in the order received.
RoomProcess ==
    /\ room_wire # << >>
    /\ room_wire' = Tail(room_wire)
    /\ IF Head(room_wire).cmd = "RoomResponse"
       THEN room_result_put(Head(room_wire))
       ELSE push_event(Head(room_wire))
    /\ UNCHANGED mp
    /\ UNCHANGED nonRoomVars

\* rooms/client.rs:216-224, 44-50 -- update_room_info, under the
\* next_sync_time lock, up to the wait: acquire stores a fresh sender and
\* QueryRoomInfo is sent.
UpdateRoomInfoSend ==
    /\ rmc.pc = "idle"
    /\ rmc.nquery < MaxQuery
    /\ rmc' = [rmc EXCEPT !.room_result = [tx |-> "live", rx |-> << >>],
                          !.asked = @ + 1, !.nquery = @ + 1, !.pc = "wait"]
    /\ UNCHANGED <<mp, room_wire, listener>>
    /\ UNCHANGED nonRoomVars

\* rooms/client.rs:51 -- no RoomResponse within TIMEOUT: the receiver is
\* dropped, the sender stays stored, update_room_info returns the error.
UpdateRoomInfoTimeout ==
    /\ rmc.pc = "wait"
    /\ rmc.room_result.rx = << >>
    /\ rmc' = [rmc EXCEPT !.room_result.tx = IF @ = "live" THEN "stale" ELSE @,
                          !.pc = "idle"]
    /\ UNCHANGED <<mp, room_wire, listener>>
    /\ UNCHANGED nonRoomVars

\* rooms/client.rs:220-225 -- the response is there: cached_room_state is
\* replaced under its write lock, which the statement then releases.
UpdateRoomInfoWrite ==
    /\ rmc.pc = "wait"
    /\ rmc.room_result.rx # << >>
    /\ rmc' = [rmc EXCEPT !.cached_room_state =
                              [rooms |-> rmc.room_result.rx[1].rooms,
                               asof |-> rmc.room_result.rx[1].asof],
                          !.room_result.rx = << >>,
                          !.pc = "clear"]
    /\ UNCHANGED <<mp, room_wire, listener>>
    /\ UNCHANGED nonRoomVars

\* rooms/client.rs:226-227 -- cached_events is cleared under its own write
\* lock, taken after the other was released.
UpdateRoomInfoClear ==
    /\ rmc.pc = "clear"
    /\ rmc' = [rmc EXCEPT !.cached_events = << >>, !.pc = "idle"]
    /\ UNCHANGED <<mp, room_wire, listener>>
    /\ UNCHANGED nonRoomVars

\* rooms/client.rs:198-214 -- listen_stream, under the read locks of
\* cached_room_state and cached_events: a create_room event per cached room,
\* the cached events, then the broadcast channel subscribed to here.
\* snap (history): the cached room state the stream was built from.
listen_stream ==
    [snap |-> rmc.cached_room_state,
     init_rooms |-> {[event_type |-> "create_room", room |-> id] :
                        id \in rmc.cached_room_state.rooms},
     init_events |-> rmc.cached_events,
     update_stream |-> << >>]

\* GET /rooms/listen: one subscriber, at any moment.
Listen ==
    /\ listener = << >>
    /\ listener' = << listen_stream >>
    /\ UNCHANGED <<mp, room_wire, rmc>>
    /\ UNCHANGED nonRoomVars

NextRooms ==
    \/ ServerRoomEvent
    \/ ServerRoomResponse
    \/ RoomProcess
    \/ UpdateRoomInfoSend
    \/ UpdateRoomInfoTimeout
    \/ UpdateRoomInfoWrite
    \/ UpdateRoomInfoClear
    \/ Listen

InitCacheSpec ==
    /\ InitRooms
    /\ InitCacheWith(CacheDir)
    /\ InitLive
    /\ InitScene
    /\ InitSession
    /\ InitMonitor
    /\ InitCore

SpecCache == InitCacheSpec /\ [][NextCache]_vars

InitLiveSpec ==
    /\ InitRooms
    /\ InitCacheWith(EmptyCacheDir)
    /\ InitLive
    /\ InitScene
    /\ InitSession
    /\ InitMonitor
    /\ InitCore

SpecLive == InitLiveSpec /\ [][NextLive]_vars

InitSceneSpec ==
    /\ InitRooms
    /\ InitCacheWith(EmptyCacheDir)
    /\ InitLive
    /\ InitScene
    /\ InitSession
    /\ InitMonitor
    /\ InitCore

SpecScene == InitSceneSpec /\ [][NextScene]_vars

InitCacheFaultsSpec ==
    /\ InitRooms
    /\ InitCacheWith(CleanCacheDir)
    /\ InitLive
    /\ InitScene
    /\ InitSession
    /\ InitMonitor
    /\ InitCore

SpecCacheFaults == InitCacheFaultsSpec /\ [][NextCacheFaults]_vars

InitSessionSpec ==
    /\ InitRooms
    /\ InitCacheWith(EmptyCacheDir)
    /\ InitLive
    /\ InitScene
    /\ InitSession
    /\ InitMonitor
    /\ InitCore

SpecSession == InitSessionSpec /\ [][NextSession]_vars

\* tokio runs every task that is ready: each step of the proxy is taken if
\* it stays possible; the browser and the upstream server promise nothing.
SpecSessionFair ==
    /\ InitSessionSpec
    /\ [][NextSession]_vars
    /\ WF_vars(ClientConnect)
    /\ WF_vars(ClientAuthenticated)
    /\ WF_vars(ClientNewFailed)
    /\ WF_vars(ForwardEvent)
    /\ WF_vars(SelectEnds)
    /\ WF_vars(SessionEnd)
    /\ WF_vars(PingSend)
    /\ WF_vars(PingNotified)
    /\ WF_vars(PingTimeout)

InitMonitorSpec ==
    /\ InitRooms
    /\ InitCacheWith(EmptyCacheDir)
    /\ InitLive
    /\ InitScene
    /\ InitSession
    /\ InitMonitor
    /\ InitCore

SpecMonitor == InitMonitorSpec /\ [][NextMonitor]_vars

InitAnimSpec ==
    /\ InitRooms
    /\ InitCacheWith(EmptyCacheDir)
    /\ InitLive
    /\ InitScene
    /\ InitSession
    /\ InitMonitor
    /\ \E kfs \in KeyframeLists : InitAnimWith(kfs)
    /\ InitParseWith([format |-> "Pec", raw |-> << >>])
    /\ InitBpmWith(<< >>)

SpecAnim == InitAnimSpec /\ [][NextAnim]_vars

InitParseSpec ==
    /\ InitRooms
    /\ InitCacheWith(EmptyCacheDir)
    /\ InitLive
    /\ InitScene
    /\ InitSession
    /\ InitMonitor
    /\ InitAnimWith(<< >>)
    /\ \E file \in {f \in ChartFiles : WellFormed(f)} : InitParseWith(file)
    /\ InitBpmWith(<< >>)

SpecParse == InitParseSpec /\ [][NextParse]_vars

InitBpmSpec ==
    /\ InitRooms
    /\ InitCacheWith(EmptyCacheDir)
    /\ InitLive
    /\ InitScene
    /\ InitSession
    /\ InitMonitor
    /\ InitAnimWith(<< >>)
    /\ InitParseWith([format |-> "Pec", raw |-> << >>])
    /\ \E ranges \in BpmRangeLists : InitBpmWith(ranges)

SpecBpm == InitBpmSpec /\ [][NextBpm]_vars

\* ------------------------------------------------------------------------
\* Chained animations: a head and one chained animation, each built from any
\* of the keyframe lists, as Anim::chain links the event layers of a line.
\* ------------------------------------------------------------------------
InitChain ==
    /\ \E head \in KeyframeLists : \E rest \in KeyframeLists :
          anim = chain(<< AnimNew(head), AnimNew(rest) >>)
    /\ anim_t = << >>

InitChainSpec ==
    /\ InitRooms
    /\ InitCacheWith(EmptyCacheDir)
    /\ InitLive
    /\ InitScene
    /\ InitSession
    /\ InitMonitor
    /\ InitChain
    /\ InitParseWith([format |-> "Pec", raw |-> << >>])
    /\ InitBpmWith(<< >>)

SpecChain == InitChainSpec /\ [][NextAnim]_vars

\* ------------------------------------------------------------------------
\* The judge drain on arbitrary queues: a scene with the chart loaded, a
\* canvas and start() done receives one batch of judge events, some of which
\* name a line or a note the chart does not have, and is rendered.
\* ------------------------------------------------------------------------
MaxQueue == 3

DrainEvents ==
    { JudgeEv(0, 0, 5, "Perfect"),
      JudgeEv(0, 1, 60, "HoldPerfect"),
      JudgeEv(1, 0, 5, "Good"),
      JudgeEv(0, 3, 20, "Perfect"),
      JudgeEv(0, 7, 70, "Miss") }

JudgeBatches ==
    UNION {[1..k -> DrainEvents] : k \in 0..MaxQueue}

InitDrain ==
    /\ hold_log = NoHoldLog
    /\ wall = 0
    /\ \E batch \in JudgeBatches :
          scene = push_judges(start(attach_canvas(load_chart(NewHeadless(0), 0), 0), 0),
                              Numbered(batch, 0))
    /\ frame = NoFrame
    /\ ntouch = 0
    /\ nsn = 0

NextDrain == Render

InitDrainSpec ==
    /\ InitRooms
    /\ InitCacheWith(EmptyCacheDir)
    /\ InitLive
    /\ InitDrain
    /\ InitSession
    /\ InitMonitor
    /\ InitCore

SpecDrain == InitDrainSpec /\ [][NextDrain]_vars

\* ------------------------------------------------------------------------
\* Chart cache: properties
\* ------------------------------------------------------------------------
RECURSIVE SumOver(_, _)
SumOver(S, f) ==
    IF S = {} THEN 0
    ELSE LET x == CHOOSE y \in S : TRUE IN f[x] + SumOver(S \ {x}, f)

Concurrent(a, b) == a \in rq[b].conc \/ b \in rq[a].conc
SameKey(a, b) == rq[a].cu # 0 /\ rq[a].cu = rq[b].cu
AllDone == \A r \in Req : Done(r)
FailedDownloads ==
    SumOver(Req, [r \in Req |-> rq[r].ndl - (IF rq[r].dl = "ok" THEN 1 ELSE 0)])
GoodDownloads == Cardinality({r \in Req : rq[r].dl = "ok"})
ChartResults == {r \in Req : rq[r].res = "ok"}

\* C1: of the concurrent requests with the same id and chart_updated at most
\* one downloads the chart from upstream: no two of them both complete a
\* download.
C1_SingleDownload ==
    \A a \in Req : \A b \in Req \ {a} :
        (Concurrent(a, b) /\ SameKey(a, b) /\ rq[a].dl = "ok") => rq[b].dl # "ok"

\* C2: whenever acquire reports HIT for (id, chart_updated), {id}.bin exists
\* and is the chart installed together with that chart_updated.
C2_HitHasBin ==
    \A r \in Req :
        rq[r].acq = "hit" => (rq[r].hitBin # NoFile /\ rq[r].hitBin.cu = rq[r].cu)

\* C9 (as claimed): N calls with the same key, N-1 failed downloads and one
\* successful download: every call ends with the chart.
C9_AllCallsHit ==
    (AllDone /\ (\A a \in Req : \A b \in Req : SameKey(a, b))
       /\ FailedDownloads = NumReq - 1 /\ GoodDownloads = 1)
    => ChartResults = Req

\* C9 (amended): N calls with the same key, N-1 failed downloads and one
\* successful download: exactly the call whose download succeeded ends with
\* the chart, every other call ends with an error.
C9_OnlySuccessfulCallServed ==
    (AllDone /\ (\A a \in Req : \A b \in Req : SameKey(a, b))
       /\ FailedDownloads = NumReq - 1 /\ GoodDownloads = 1)
    => ChartResults = {r \in Req : rq[r].dl = "ok"}

C9_Witness ==
    /\ AllDone
    /\ \A a \in Req : \A b \in Req : SameKey(a, b)
    /\ FailedDownloads = NumReq - 1
    /\ GoodDownloads = 1

\* C10: a download is never retried; a failed download is returned as an
\* error to the request that made it and is delivered as an error to every
\* request waiting on it.
C10_ErrorPropagates ==
    \A r \in Req :
        /\ rq[r].ndl <= 1
        /\ (Done(r) /\ rq[r].dl = "err") => rq[r].res = "err"
        /\ \A f \in Req \ {r} :
              (Done(r) /\ rq[r].dl = "err" /\ rq[f].role = "follower" /\ rq[f].sub = r)
              => (rq[f].chan = "err" /\ (Done(f) => rq[f].res = "err"))

C10_Witness ==
    \E r \in Req : \E f \in Req \ {r} :
        /\ Done(r) /\ rq[r].dl = "err" /\ rq[r].res = "err"
        /\ rq[f].role = "follower" /\ rq[f].sub = r
        /\ Done(f) /\ rq[f].res = "err"

\* C11: when the request performing the download is cancelled while another
\* request waits on it, the download has still completed and the waiting
\* request is told so (it is not left waiting for a message that cannot
\* come).
C11_CancelKeepsFollowersServed ==
    \A w \in Req : \A f \in Req \ {w} :
        (/\ rq[w].role = "worker" /\ rq[w].res = "cancelled"
         /\ rq[f].role = "follower" /\ rq[f].sub = w /\ rq[f].res # "cancelled")
        => (rq[w].dl = "ok" /\ (rq[f].chan = "ok" \/ rq[f].res = "ok"))

\* C12: after the process has stopped at some point of an installation, an
\* acquire that reports HIT for chart_updated finds in {id}.bin the chart
\* that was installed for that chart_updated.
C12_CrashSafeInstall ==
    \A r \in Req :
        (rq[r].acq = "hit" /\ \E w \in Req : rq[w].res = "crashed")
        => (rq[r].hitBin # NoFile /\ rq[r].hitBin.cu = rq[r].cu)

\* C13: once the browser WebSocket has closed, the upstream connection has
\* closed or the heartbeat has given up while the session is forwarding, the
\* session eventually terminates.
C13_CloseCancelsSession ==
    (/\ sess.pc = "select"
     /\ (sess.ws = "closed" \/ sess.tcp = "closed" \/ sess.ping = "ended"))
    ~> (sess.pc = "ended")

\* C14: when a live session has ended, LeaveRoom was sent upstream (if the
\* connection still existed), the upstream connection is released and the
\* heartbeat task no longer runs.
C14_EndReleasesSession ==
    (sess.pc = "ended" /\ sess.auth = "ok")
    => /\ sess.ping \notin {"sleep", "wait"}
       /\ sess.tcp = "released"

\* C15: once the authentication attempt has completed and the session has
\* nothing left to forward, the browser (if it is still there) has received
\* the result as an Authenticate event, be it a success or a failure.
C15_AuthResultDelivered ==
    /\ (sess.pc = "select" /\ sess.events = <<>>)
       => \E i \in 1..Len(sess.to_browser) : sess.to_browser[i] = "Authenticate(Ok)"
    /\ (sess.pc = "ended" /\ sess.auth = "err" /\ sess.ws # "closed")
       => \E i \in 1..Len(sess.to_browser) : sess.to_browser[i] = "Authenticate(Err)"

\* ------------------------------------------------------------------------
\* GameScene: the Hold note and the fake note
\* ------------------------------------------------------------------------
HoldEnd == TestChart[HoldNote.line_idx][HoldNote.note_idx].end_time
HoldState == scene.judge[HoldNote.line_idx][HoldNote.note_idx]

\* C19 as stated: once the hold that started at t0 has completed, it has
\* emitted floor((end_time - t0) / HOLD_PARTICLE_INTERVAL) HoldTicks and one
\* HoldComplete, is Judged Perfect and has emitted nothing since.
C19_TickCountIsFloor ==
    hold_log.completes > 0
    => /\ hold_log.ticks = (HoldEnd - hold_log.t0) \div HOLD_PARTICLE_INTERVAL
       /\ hold_log.completes = 1
       /\ hold_log.late = 0
       /\ HoldState.s = "Judged" /\ HoldState.j = "Perfect"

\* The fake note of TestChart, and a judge event of the room that names it.
FakeNote == [line_idx |-> 1, note_idx |-> 3]
FakeNoteEvent(j) ==
    JudgeEv(FakeNote.line_idx - 1, FakeNote.note_idx - 1,
            TestChart[FakeNote.line_idx][FakeNote.note_idx].time, j)

\* C20: the fake note is NotJudged in every state of a scene with a chart,
\* it alone never satisfies R3's test, and a judge pass that finds a due
\* judge event naming it in the queue leaves it NotJudged.
C20_FakeStaysNotJudged ==
    scene.chart_renderer
    => /\ scene.judge[FakeNote.line_idx][FakeNote.note_idx] = NotJudged
       /\ \A t \in 0..MaxWall :
             ~has_unjudged(<< <<TestChart[FakeNote.line_idx][FakeNote.note_idx]>> >>,
                           << <<NotJudged>> >>, t)
       /\ \A j \in {"Perfect", "Miss", "HoldPerfect"} : \A d \in TickSteps :
             update_judges(scene.chart, scene.judge, <<FakeNoteEvent(j)>>,
                           FakeNoteEvent(j).time + d, d)
                .judge[FakeNote.line_idx][FakeNote.note_idx] = NotJudged

\* ------------------------------------------------------------------------
\* GameMonitor: properties
\* ------------------------------------------------------------------------
\* Who has a scene after one event, by the rule of the registry: a successful
\* join response and UserJoin add players, UserLeave removes one, Leave
\* removes all, every other event changes nothing.
PlayersAfter(present, e) ==
    CASE e.kind = "JoinOk" -> present \cup e.arg
      [] e.kind = "UserJoin" -> present \cup {e.player}
      [] e.kind = "UserLeave" -> present \ {e.player}
      [] e.kind = "Leave" -> {}
      [] OTHER -> present

RECURSIVE PlayersAfterAll(_, _)
PlayersAfterAll(present, q) ==
    IF q = << >> THEN present
    ELSE PlayersAfterAll(PlayersAfter(present, Head(q)), Tail(q))

\* C16: a tick that dispatches a sequence of events leaves a scene for
\* exactly the players the join / leave rule gives, event after event;
\* between ticks only attach_canvas adds a scene (for its player) and nothing
\* removes one. The registry starts empty.
C16_SceneExistsIffJoinedAndNotLeft ==
    [][ /\ timestamp' # timestamp
           => DOMAIN mon'.scenes = PlayersAfterAll(DOMAIN mon.scenes, event_queue)
        /\ timestamp' = timestamp
           => \/ DOMAIN mon'.scenes = DOMAIN mon.scenes
              \/ \E p \in Players : \E found \in BOOLEAN :
                    /\ MonitorAttachCanvas(p, found)
                    /\ DOMAIN mon'.scenes = DOMAIN mon.scenes \cup {p} ]_vars

\* Every received event is dispatched; player 2 has a started headless
\* scene and player 1 has none.
C16_Witness ==
    /\ nev = MaxEvents /\ event_queue = << >>
    /\ DOMAIN mon.scenes = {2}
    /\ mon.scenes[2].start_wall_time # None
    /\ ~mon.scenes[2].render_ctx

\* C17: in every state of the registry, dispatching a Touches or Judges
\* event for player p leaves the set of scenes and every other scene as
\* they are, and changes at most the queues (pending judges, active
\* touches), target_time and unpause_signal of p's scene; without a scene
\* of p nothing changes.
C17_OnlyTargetSceneChanges ==
    \A e \in {x \in MonEvents : x.kind \in {"Touches", "Judges"}} :
        LET after == Dispatch(mon, e, timestamp) IN
        /\ DOMAIN after.scenes = DOMAIN mon.scenes
        /\ [after EXCEPT !.scenes = mon.scenes] = mon
        /\ \A q \in DOMAIN mon.scenes \ {e.player} : after.scenes[q] = mon.scenes[q]
        /\ e.player \in DOMAIN mon.scenes
           => [after.scenes[e.player] EXCEPT
                  !.pending_judges = mon.scenes[e.player].pending_judges,
                  !.active_touches = mon.scenes[e.player].active_touches,
                  !.target_time = mon.scenes[e.player].target_time,
                  !.unpause_signal = mon.scenes[e.player].unpause_signal]
              = mon.scenes[e.player]

\* Two scenes exist and an event of player 1 only has been dispatched.
C17_Witness ==
    /\ DOMAIN mon.scenes = {1, 2}
    /\ mon.scenes[1].target_time # None
    /\ mon.scenes[2].target_time = None
    /\ mon.scenes[2].pending_judges = << >>

\* C18: in every state of the registry, dispatching StateChange(Playing) at
\* wall time w leaves every scene started: one that was not started gets
\* the anchor w, one that was started is left exactly as it was.
C18_PlayingStartsEveryScene ==
    \A d \in MonitorTickSteps :
        LET w == timestamp + d
            after == Dispatch(mon, LiveEv("StateChange", 0, "Playing"), w)
        IN /\ DOMAIN after.scenes = DOMAIN mon.scenes
           /\ \A q \in DOMAIN mon.scenes :
                 IF mon.scenes[q].start_wall_time # None
                 THEN after.scenes[q] = mon.scenes[q]
                 ELSE /\ after.scenes[q].start_wall_time = w
                      /\ TimePaused(after.scenes[q].time)
                      /\ TimeNow(after.scenes[q].time, w) = 0

\* Playing was dispatched twice: the scene that was there the first time
\* kept its anchor, the one that came later has a later one.
C18_Witness ==
    /\ DOMAIN mon.scenes = {1, 2}
    /\ mon.scenes[1].start_wall_time # None
    /\ mon.scenes[2].start_wall_time # None
    /\ mon.scenes[1].start_wall_time < mon.scenes[2].start_wall_time

\* ------------------------------------------------------------------------
\* GameScene: canvas attach / detach, the start delay, the clock
\* ------------------------------------------------------------------------
\* The wall-clock instants at which the next call can happen.
WallsAhead == {wall} \cup {wall + d : d \in TickSteps}

\* The scene after attach_canvas, detach_canvas, attach_canvas at w1 <= w2.
Reattached(sc, w1, w2) == attach_canvas(detach_canvas(attach_canvas(sc, w1)), w2)

\* Chart, note statuses, event queue and the signals kept with it.
ChartAndQueues(sc) ==
    <<sc.chart_renderer, sc.chart, sc.judge, sc.cr_time, sc.pending_judges,
      sc.target_time, sc.unpause_signal, sc.judge_pause_time, sc.start_wall_time>>

\* C21 as stated: in every state of a scene, attach, detach, attach leave the
\* clock (position and paused / running), the chart and the queues as they
\* were; detach alone too; attach on an attached scene changes nothing.
C21_ReattachLeavesClock ==
    \A w1 \in WallsAhead : \A w2 \in {w \in WallsAhead : w >= w1} :
        LET after == Reattached(scene, w1, w2) IN
        /\ ChartAndQueues(after) = ChartAndQueues(scene)
        /\ after.time = scene.time
        /\ ChartAndQueues(detach_canvas(scene)) = ChartAndQueues(scene)
        /\ detach_canvas(scene).time = scene.time
        /\ scene.render_ctx => attach_canvas(scene, w1) = scene

\* C21, amended: attach, detach, attach leave the chart, the queues and the
\* paused / running state of the clock as they were; the clock position is
\* kept too unless the scene is started and has a target_time, and then the
\* attach seeks it to max(target_time - SEEK_OFFSET, 0); detach alone keeps
\* clock, chart and queues; attach on an attached scene changes nothing.
C21_ReattachSeeksStartedScene ==
    \A w1 \in WallsAhead : \A w2 \in {w \in WallsAhead : w >= w1} :
        LET after == Reattached(scene, w1, w2) IN
        /\ ChartAndQueues(after) = ChartAndQueues(scene)
        /\ TimePaused(after.time) = TimePaused(scene.time)
        /\ IF scene.start_wall_time # None /\ scene.target_time # None
           THEN TimeNow(after.time, w2) = Max(scene.target_time - SEEK_OFFSET, 0)
           ELSE after.time = scene.time
        /\ ChartAndQueues(detach_canvas(scene)) = ChartAndQueues(scene)
        /\ detach_canvas(scene).time = scene.time
        /\ scene.render_ctx => attach_canvas(scene, w1) = scene

\* A scene that has drawn frames was detached and attached again, and the
\* attach put the running clock at target_time - SEEK_OFFSET.
C21_Witness ==
    /\ scene.render_ctx
    /\ frame = NoFrame
    /\ scene.cr_time > 0
    /\ scene.start_wall_time # None /\ scene.target_time # None
    /\ ~TimePaused(scene.time)
    /\ TimeNow(scene.time, wall) = Max(scene.target_time - SEEK_OFFSET, 0)
    /\ scene.cr_time # TimeNow(scene.time, wall)


\* The deadline the start delay is stated with: the start anchor plus
\* START_DELAY_SECS, or the start anchor plus the buffered target_time when
\* that is earlier.
StatedDeadline(sc) ==
    IF sc.target_time # None /\ sc.target_time < START_DELAY_SECS
    THEN sc.start_wall_time + sc.target_time
    ELSE sc.start_wall_time + START_DELAY_SECS

\* C22: for a started scene, a render call with now earlier than the
\* effective deadline returns at once: the clock is not started, no pending
\* judge event is drained, no note changes, and the frame emits nothing.
C22_NothingBeforeDeadline ==
    [][ (/\ RenderStep
         /\ scene.start_wall_time # None
         /\ wall' < StatedDeadline(scene))
        => /\ scene' = scene
           /\ TimePaused(scene'.time) = TimePaused(scene.time)
           /\ frame'.kind = "delay"
           /\ frame'.events = << >>
           /\ hold_log' = hold_log ]_vars

\* A frame was held back by a deadline that a buffered target_time made
\* earlier than the full delay, with judge events waiting and the clock
\* still paused.
C22_Witness ==
    /\ scene.render_ctx
    /\ scene.start_wall_time # None
    /\ frame.kind = "delay"
    /\ frame.now = wall
    /\ wall < StatedDeadline(scene)
    /\ scene.target_time # None
    /\ StatedDeadline(scene) < scene.start_wall_time + START_DELAY_SECS
    /\ scene.pending_judges # << >>
    /\ TimePaused(scene.time)

\* A started scene whose clock has not been started yet: the clock is still
\* paused, and not by Rule 3.
ClockNotStarted(sc) ==
    /\ sc.start_wall_time # None
    /\ TimePaused(sc.time)
    /\ sc.judge_pause_time = None

StartPosition(sc) ==
    IF sc.target_time # None THEN Max(sc.target_time - SEEK_OFFSET, 0) ELSE 0

\* C23: the first render at or after the effective deadline starts the
\* clock at max(target_time - SEEK_OFFSET, 0) when target_time is set and at
\* 0 otherwise, and the audio from the same offset; the clock is started
\* once per start: once it runs (or is held by Rule 3) no step of the same
\* start makes it "not started" again, and a frame drawn on a running clock
\* does not move it.  The last conjunct applies render at the deadline
\* itself to every scene still waiting, the full START_DELAY_SECS included.
C23_ClockStartedOnceAtSeekPosition ==
    [][ /\ (RenderStep /\ ClockNotStarted(scene) /\ wall' >= StatedDeadline(scene))
            => /\ TimeNow(scene'.time, wall') = StartPosition(scene)
               /\ scene'.audio.from = StartPosition(scene)
               /\ frame'.time = StartPosition(scene)
               /\ ~ClockNotStarted(scene')
               /\ \/ ~TimePaused(scene'.time) /\ scene'.audio.playing
                  \/ scene'.judge_pause_time = StartPosition(scene)
        /\ (/\ scene.start_wall_time # None
            /\ ~ClockNotStarted(scene)
            /\ scene'.start_wall_time = scene.start_wall_time)
            => ~ClockNotStarted(scene')
        /\ (RenderStep /\ scene.start_wall_time # None /\ ~TimePaused(scene.time))
            => TimeNow(scene'.time, wall') = TimeNow(scene.time, wall')
        /\ (scene.render_ctx /\ ClockNotStarted(scene))
            => LET at == StatedDeadline(scene)
                   r == render(scene, at).scene
               IN /\ TimeNow(r.time, at) = StartPosition(scene)
                  /\ r.audio.from = StartPosition(scene)
                  /\ ~ClockNotStarted(r) ]_vars

\* The frame that started the clock of a scene with a buffered target_time:
\* clock, frame and audio are at target_time - SEEK_OFFSET, past 0.
C23_Witness ==
    /\ scene.render_ctx
    /\ scene.start_wall_time # None
    /\ scene.target_time # None
    /\ frame.kind = "full"
    /\ frame.now = wall
    /\ frame.time = scene.target_time - SEEK_OFFSET
    /\ frame.time > 0
    /\ ~TimePaused(scene.time)
    /\ TimeNow(scene.time, wall) = frame.time
    /\ scene.audio.playing
    /\ scene.audio.from = frame.time

\* C24: while the scene is playing (its clock is not paused), the
\* current_time of every frame drawn equals the position the audio engine
\* reports, audio.get_time().
C24_FrameTimeIsAudioTime ==
    [][ (RenderStep /\ frame'.kind = "full" /\ ~TimePaused(scene'.time))
        => frame'.time = AudioTime(scene'.audio, wall') ]_vars

\* ------------------------------------------------------------------------
\* Anim: properties
\* ------------------------------------------------------------------------

\* C25: for every animation with at least one keyframe, after set_time(t),
\* whatever the earlier calls were, now_opt() is the first keyframe's value
\* if t <= kfs[0].time and the last keyframe's value if t >= kfs[last].time.
C25_ClampedOutsideKeyframes ==
    (anim_t # << >> /\ Len(anim.keyframes) >= 1)
    => LET t == anim_t[1]
           kfs == anim.keyframes
       IN /\ t <= kfs[1].time => IsValue(now_opt(anim), kfs[1].value)
          /\ t >= kfs[Len(kfs)].time => IsValue(now_opt(anim), kfs[Len(kfs)].value)

\* C26: on a non-chained animation with time-sorted keyframes, a set_time
\* call whose time is not earlier than the time of the call before it never
\* moves the segment cursor backward, and the cursor is always the index of
\* a keyframe.
C26_CursorMonotoneAndValid ==
    [][ Len(anim.keyframes) >= 1
        => /\ anim'.cursor \in 0..Len(anim.keyframes) - 1
           /\ (anim_t # << >> /\ anim_t'[1] >= anim_t[1]) => anim'.cursor >= anim.cursor
           /\ anim_t = << >> => anim'.cursor >= anim.cursor ]_vars

\* A set_time call with a time past the last of three keyframes has moved
\* the cursor forward to the last keyframe.
C26_Witness ==
    /\ Len(anim.keyframes) = 3
    /\ anim_t = <<2>>
    /\ anim.cursor = 2
    /\ anim.keyframes[2].time < anim.keyframes[3].time

\* ------------------------------------------------------------------------
\* Chart parsers: properties
\* ------------------------------------------------------------------------

\* Following the parent links from line i for at most fuel steps ends at a
\* line without parent.
RECURSIVE EndsAtRoot(_, _, _)
EndsAtRoot(parents, i, fuel) ==
    /\ i \in 0..(Len(parents) - 1)
    /\ \/ parents[i + 1] = None
       \/ fuel > 0 /\ EndsAtRoot(parents, parents[i + 1], fuel - 1)

\* C27: every chart accepted by a parser has an acyclic parent relation
\* over its lines: following the parent links from any line, as fetch_pos
\* does, ends at a line without parent within as many steps as there are
\* lines, and fetch_pos neither panics nor exhausts the stack.
C27_AcceptedChartsAreAcyclic ==
    parse.result = "accepted"
    => /\ \A i \in 0..(Len(parse.parents) - 1) :
             EndsAtRoot(parse.parents, i, Len(parse.parents))
       /\ walk.pc \notin {"panic", "stack_overflow"}

\* ------------------------------------------------------------------------
\* BpmList: properties
\* ------------------------------------------------------------------------

\* The largest f32 that is not above 1e-4: 13743895 * 2^-37.
TOLERANCE == [s |-> 1, m |-> 13743895, e |-> -37]

\* The time stored in entry i: the durations of the segments before it, added up.
RECURSIVE CumulativeTime(_, _)
CumulativeTime(els, i) ==
    IF i = 1 THEN FZero
    ELSE FAdd(CumulativeTime(els, i - 1),
              FMul(FSub(els[i].beats, els[i - 1].beats), FDiv(F60, els[i - 1].bpm)))

\* C28: for a valid BPM list and any beat value b, wherever earlier lookups
\* left the cursor, beats_at_time(time_at_beats(b)) is within 1e-4 of b; and
\* the stored time of each entry is the cumulative duration of the segments
\* before it.
C28_BeatsRoundTrip ==
    /\ bq.pc = "back" => ~FLess(TOLERANCE, FAbs(FSub(bq.back, bq.beats)))
    /\ \A i \in 1..Len(bpm.elements) : bpm.elements[i].time = CumulativeTime(bpm.elements, i)

\* ------------------------------------------------------------------------
\* TimeManager: the algebra of the scene clock
\* ------------------------------------------------------------------------

SeekPositions == {0, 10, 50}

\* C29: for the clock of every reachable scene, at every wall time w from
\* now on: while paused, now() does not change as wall time advances;
\* resume() continues from exactly the value shown while paused; seek_to(pos)
\* makes now() equal pos at that instant, paused or running, and leaves
\* paused() as it was; pause() on a paused clock and resume() on a running
\* clock change nothing.
C29_ClockAlgebra ==
    LET tm == scene.time IN
    \A w \in WallsAhead :
       /\ TimePaused(tm)
          => /\ \A d \in TickSteps : TimeNow(tm, w + d) = TimeNow(tm, w)
             /\ TimeNow(TimeResume(tm, w), w) = TimeNow(tm, w)
             /\ ~TimePaused(TimeResume(tm, w))
             /\ TimePause(tm, w) = tm
       /\ ~TimePaused(tm)
          => /\ TimeResume(tm, w) = tm
             /\ TimePaused(TimePause(tm, w))
             /\ \A d \in TickSteps :
                   TimeNow(TimePause(tm, w), w + d) = TimeNow(tm, w)
       /\ \A pos \in SeekPositions :
             /\ TimeNow(TimeSeekTo(tm, pos, w), w) = pos
             /\ TimePaused(TimeSeekTo(tm, pos, w)) = TimePaused(tm)

\* The paused clock of a started scene shows a position past 0 (a seek or
\* a run took it there), and wall time has moved on since the pause began.
C29_Witness ==
    /\ scene.start_wall_time # None
    /\ TimePaused(scene.time)
    /\ scene.time.pause_time < wall
    /\ TimeNow(scene.time, wall) > 0

\* ------------------------------------------------------------------------
\* Heartbeat: properties
\* ------------------------------------------------------------------------

\* C30: the heartbeat declares the connection failed exactly when 3 Pings
\* in a row each got no Pong within HEARTBEAT_TIMEOUT of being sent, and a
\* Ping answered in time resets the miss count to zero.
C30_FailedExactlyAfterThreeMisses ==
    /\ (sess.ping = "ended" /\ sess.fails >= PING_FAIL_LIMIT)
          <=> sess.missed >= PING_FAIL_LIMIT
    /\ (sess.ping = "sleep" /\ sess.missed = 0) => sess.fails = 0

\* ------------------------------------------------------------------------
\* Resume with rewind (R4): properties
\* ------------------------------------------------------------------------

\* The frame resumes a scene paused for judge: it gets past the start delay
\* with an unpause signal waiting.
ResumeStep ==
    /\ RenderStep
    /\ scene.start_wall_time # None
    /\ wall' >= EffectiveDeadline(scene)
    /\ scene.judge_pause_time # None
    /\ scene.unpause_signal # None

ResumeTime(sc) == Max(sc.judge_pause_time - REWIND_ON_RESUME, 0)

\* C31: in the frame of an R4 resume at resume_time, every non-fake note
\* left NotJudged has resume_time - note.time <= STALE_LIMIT (the older ones
\* are Judged(resume_time, Miss)), the frame is drawn at resume_time, and R3
\* does not pause the scene again in that frame.
C31_ResumeClearsPassedNotes ==
    [][ ResumeStep =>
          /\ frame'.time = ResumeTime(scene)
          /\ \A l \in 1..Len(scene.chart) : \A n \in 1..Len(scene.chart[l]) :
                LET note == scene.chart[l][n] IN
                /\ (~note.fake /\ scene'.judge[l][n].s = "NotJudged")
                      => ResumeTime(scene) - note.time <= STALE_LIMIT
                /\ (~note.fake /\ scene.judge[l][n].s = "NotJudged"
                      /\ ResumeTime(scene) - note.time > STALE_LIMIT)
                      => scene'.judge[l][n] = Judged(ResumeTime(scene), "Miss")
          /\ ~has_unjudged(scene'.chart, scene'.judge, frame'.time)
          /\ scene'.judge_pause_time = None
          /\ ~TimePaused(scene'.time) ]_vars

\* A resume has just swept the Click (time 5) as Miss at resume_time, before
\* any verdict of the script names it, and left the Hold (time 60) alone.
C31_Witness ==
    /\ scene.chart_renderer
    /\ frame.kind = "full"
    /\ scene.judge_pause_time = None
    /\ ~TimePaused(scene.time)
    /\ frame.time - TestChart[1][1].time > STALE_LIMIT
    /\ scene.judge[1][1] = Judged(frame.time, "Miss")
    /\ frame.events = << >>
    /\ scene.judge[1][2].s = "NotJudged"
    /\ frame.time < TestChart[1][2].time

\* ------------------------------------------------------------------------
\* Judge events that name no note: properties
\* ------------------------------------------------------------------------

\* The event names a line and a note of the scene's chart.
Exists(sc, e) ==
    /\ e.line_id + 1 \in 1..Len(sc.chart)
    /\ e.note_id + 1 \in 1..Len(sc.chart[e.line_id + 1])

\* The events at the head of the queue whose time has come at t: the hook
\* stops at the first event ahead of the clock (line 408).
RECURSIVE DuePrefix(_, _)
DuePrefix(q, t) ==
    IF q = << >> \/ Head(q).time > t THEN 0 ELSE 1 + DuePrefix(Tail(q), t)

\* The queue without the due events that name no note.
WithoutDueMissing(sc, q, t) ==
    SelectSeq(SubSeq(q, 1, DuePrefix(q, t)), LAMBDA e : Exists(sc, e))
        \o SubSeq(q, DuePrefix(q, t) + 1, Len(q))

\* The frame runs the hook: it is drawn with a chart and dt > 0.
HookRuns ==
    /\ RenderStep
    /\ scene.chart_renderer
    /\ frame'.kind = "full"
    /\ frame'.time > scene.cr_time

\* C32: a frame that runs the hook leaves the scene (notes, clock, queue)
\* and the emitted events, hitsounds and particles exactly as it would had
\* the due events naming no note never been queued, and it leaves no due
\* event at the head of the queue: an event naming no note is removed when
\* its time has come, changes nothing, and the events behind it are applied
\* in the same frame.
C32_MissingNoteDropped ==
    [][ HookRuns =>
          LET t == frame'.time
              r == render([scene EXCEPT !.pending_judges =
                              WithoutDueMissing(scene, @, t)], wall')
          IN
          /\ scene' = r.scene
          /\ frame'.events = r.frame.events
          /\ frame'.hitsounds = r.frame.hitsounds
          /\ frame'.particles = r.frame.particles
          /\ \/ scene'.pending_judges = << >>
             \/ Head(scene'.pending_judges).time > t
          /\ Len(frame'.drained) = DuePrefix(scene.pending_judges, t) ]_vars

\* A frame has removed an event naming no note (sn 1) and applied the Click's
\* verdict queued behind it (sn 2).
C32_Witness ==
    /\ frame.kind = "full"
    /\ Len(frame.drained) >= 2
    /\ frame.drained[1].sn = 1
    /\ frame.drained[2].sn = 2
    /\ frame.events = << Ev("Judged", "Perfect", 1, 1) >>
    /\ scene.judge[1][1] = Judged(5, "Perfect")

\* ------------------------------------------------------------------------
\* target_time: properties
\* ------------------------------------------------------------------------

\* max(previous target_time, t), where no previous target_time counts as t.
RaisedTo(target_time, t) ==
    IF target_time = None THEN t ELSE Max(target_time, t)

\* C33: as long as no chart is loaded over it, target_time never decreases
\* (and is never lost); a push of judge events or touch frames leaves it at
\* max(previous target_time, time of the batch's last element), a judge push
\* sets unpause_signal to that time and a touch push leaves it alone; an
\* empty batch of either kind changes nothing.
C33_TargetTimeMonotone ==
    [][ /\ (scene'.gen = scene.gen /\ scene.target_time # None)
            => scene'.target_time >= scene.target_time
        /\ nsn' # nsn =>
              /\ scene'.target_time = RaisedTo(scene.target_time, JudgeScript[nsn'].time)
              /\ scene'.unpause_signal = JudgeScript[nsn'].time
        /\ ntouch' # ntouch =>
              /\ scene'.target_time = RaisedTo(scene.target_time, TouchScript[ntouch'])
              /\ scene'.unpause_signal = scene.unpause_signal
        /\ push_judges(scene, << >>) = scene
        /\ push_touch_frames(scene, << >>) = scene
        /\ \A t \in {TouchScript[i] : i \in 1..Len(TouchScript)} :
              push_touch_frames(scene, <<0, t>>).target_time = RaisedTo(scene.target_time, t)
      ]_vars

\* With the chart loaded, the last verdict of the script (time 30) has been
\* pushed after the Hold's
\* (time 60): target_time stays at the larger value, the unpause signal is 30.
C33_Witness ==
    /\ scene.chart_renderer
    /\ nsn = Len(JudgeScript)
    /\ scene.unpause_signal = JudgeScript[Len(JudgeScript)].time
    /\ scene.target_time > scene.unpause_signal
    /\ Len(scene.pending_judges) > 0
    /\ Last(scene.pending_judges).sn = Len(JudgeScript)

\* ------------------------------------------------------------------------
\* The unpause signal: properties
\* ------------------------------------------------------------------------

\* C34: every frame that gets past the start delay leaves no unpause signal,
\* paused or not; so the frame in which R3 pauses the scene ends without a
\* signal, whatever was pushed before it, a signal appears only through a
\* push of judge events, and a scene paused for judge leaves the pause (with
\* its chart kept) only in a frame that found a signal.
C34_SignalConsumedEveryFrame ==
    [][ /\ (RenderStep /\ scene.start_wall_time # None
               /\ wall' >= EffectiveDeadline(scene))
            => scene'.unpause_signal = None
        /\ (scene.judge_pause_time = None /\ scene'.judge_pause_time # None)
            => /\ RenderStep
               /\ scene'.unpause_signal = None
        /\ (scene.unpause_signal = None /\ scene'.unpause_signal # None)
            => nsn' > nsn
        /\ (scene.judge_pause_time # None /\ scene'.judge_pause_time = None
               /\ scene'.gen = scene.gen)
            => /\ RenderStep
               /\ scene.unpause_signal # None
        /\ (RenderStep /\ scene.judge_pause_time # None /\ scene.unpause_signal = None)
            => scene'.judge_pause_time = scene.judge_pause_time
      ]_vars

\* The frame that paused the scene also drained a verdict pushed before it:
\* the push's signal is gone and the scene is paused for judge.
C34_Witness ==
    /\ frame.kind = "full"
    /\ scene.judge_pause_time = frame.time
    /\ TimePaused(scene.time)
    /\ frame.drained # << >>
    /\ scene.unpause_signal = None

\* ------------------------------------------------------------------------
\* Loading a chart: properties
\* ------------------------------------------------------------------------

\* The scene as load_chart at wall time w must leave it: the new chart with
\* every note NotJudged, the clock at 0 and paused, not started, no judge
\* pause, target_time or unpause signal, no queued judge event, no touch, the
\* music not playing; and a frame at any later time draws nothing and changes
\* nothing.
FreshlyLoaded(sc, w) ==
    /\ sc.chart_renderer
    /\ sc.chart = TestChart
    /\ sc.judge = FreshJudges(TestChart)
    /\ TimePaused(sc.time)
    /\ \A w2 \in {w, w + 1, MaxWall} : TimeNow(sc.time, w2) = 0
    /\ sc.start_wall_time = None
    /\ sc.judge_pause_time = None
    /\ sc.target_time = None
    /\ sc.unpause_signal = None
    /\ sc.pending_judges = << >>
    /\ sc.active_touches = << >>
    /\ sc.fading_touches = << >>
    /\ ~sc.audio.playing
    /\ \A w2 \in WallsAhead :
          LET r == render(sc, w2) IN
          /\ r.scene = sc
          /\ r.frame.kind \in {"headless", "not_started"}

\* C35: loading a chart leaves the scene freshly loaded, whatever state it
\* was in (applied to every reachable scene, and on every LoadChart step);
\* a scene that is not started is started by start() alone, and until then
\* its clock stays at 0 and paused.
C35_LoadChartResets ==
    [][ /\ FreshlyLoaded(load_chart(scene, wall), wall)
        /\ scene'.gen # scene.gen => FreshlyLoaded(scene', wall')
        /\ (scene.start_wall_time = None /\ scene'.start_wall_time # None)
              => scene' = start(scene, wall)
        /\ (scene.start_wall_time = None /\ scene'.start_wall_time = None)
              => /\ TimePaused(scene'.time)
                 /\ TimeNow(scene'.time, wall') = 0
                 /\ scene'.judge_pause_time = None
      ]_vars

\* A chart has been loaded into a scene that had drawn a frame (so it was
\* started and past its start delay) and had received judge events and touch
\* frames: nothing of them is left.
C35_Witness ==
    /\ scene.gen > 0
    /\ frame.kind = "full"
    /\ nsn > 0
    /\ ntouch > 0
    /\ FreshlyLoaded(scene, wall)

\* ------------------------------------------------------------------------
\* TaskResult: properties
\* ------------------------------------------------------------------------

\* C36: the value an acquire call receives is the server's response to the
\* command that call sent (the latest command, since a call holds the
\* TaskResult's lock until it returns); a response to a command whose call
\* timed out is not received by a later call.
C36_ResponseAnswersOwnRequest ==
    /\ (cmd_pc = "join_wait" /\ join_result.rx # None) => join_result.re = ncmd
    /\ (cmd_pc = "leave_wait" /\ leave_result.rx # None) => leave_result.re = ncmd

\* ------------------------------------------------------------------------
\* Failed fetches: properties
\* ------------------------------------------------------------------------

\* Request r is the worker whose download or parse failed.
FailedWorker(q, r) == q[r].role = "worker" /\ q[r].dl = "err"

\* C37: a worker whose download or parse fails writes nothing: the step in
\* which it fails and every later step of it leave {id}.meta, {id}.bin and
\* {id}.bin.tmp as they were and take no file lock; when it has returned its
\* error, the in-flight entry is not its own any more and it holds no lock,
\* so a request that starts afterwards meets the cache as it was.
C37_FailedFetchNotCached ==
    [][ \A r \in Req :
          /\ (FailedWorker(rq', r) /\ rq'[r].pc # rq[r].pc)
                => /\ meta' = meta
                   /\ bin' = bin
                   /\ binTmp' = binTmp
                   /\ metaLock' = metaLock
          /\ (FailedWorker(rq', r) /\ rq'[r].pc = "done")
                => /\ rq'[r].res = "err"
                   /\ rq'[r].served = 0
                   /\ in_flight' # r
                   /\ metaLock' # r ]_vars

\* A worker failed on a chart whose older version is cached; the files are
\* that version still, and a request that started after the failure found
\* the same miss and became the worker in its turn.
C37_Witness ==
    \E r \in Req : \E n \in Req \ {r} :
        /\ FailedWorker(rq, r)
        /\ rq[r].pc = "done"
        /\ rq[r].acq = "miss"
        /\ rq[r].hitBin = ChartFile(1, 1)
        /\ meta = 1
        /\ bin = ChartFile(1, 1)
        /\ ~Concurrent(r, n)
        /\ rq[n].cu = rq[r].cu
        /\ rq[n].acq = "miss"
        /\ rq[n].role = "worker"
        /\ rq[n].pc = "download"
        /\ in_flight = n

\* ------------------------------------------------------------------------
\* Chained animations: properties
\* ------------------------------------------------------------------------

\* The two samples are finite values and s is their sum.
IsSum(s, x, y) ==
    /\ s.den > 0 /\ x.den > 0 /\ y.den > 0
    /\ s.num * x.den * y.den = (x.num * y.den + y.num * x.den) * s.den

\* C38: after set_time(t) on an animation that has keyframes and a chained
\* animation, both are at time t, and now_opt() is the sum of the two
\* animations' own samples (where both are finite values); now_opt() is None
\* exactly when the animation has no keyframes.
C38_ChainSampleIsSum ==
    /\ (anim.keyframes # << >> /\ anim.next # << >> /\ anim_t # << >>) =>
          /\ anim.time = anim_t[1]
          /\ anim.next[1].time = anim_t[1]
          /\ (now_opt_inner(anim).den > 0 /\ now_opt_inner(anim.next[1]).den > 0) =>
                IsSum(now_opt(anim), now_opt_inner(anim), now_opt_inner(anim.next[1]))
    /\ now_opt(anim) = NoValue <=> anim.keyframes = << >>
\* ------------------------------------------------------------------------
\* Room monitor: the specification
\* ------------------------------------------------------------------------
InitRoomsSpec ==
    /\ InitRooms
    /\ InitCacheWith(EmptyCacheDir)
    /\ InitLive
    /\ InitScene
    /\ InitSession
    /\ InitMonitor
    /\ InitCore

SpecRooms == InitRoomsSpec /\ [][NextRooms]_vars

\* The room events the monitor has processed so far.
Pushed == mp.sn - Cardinality({i \in DOMAIN room_wire : room_wire[i].cmd = "RoomEvent"})

\* What the subscriber is sent after the create_room events of the snapshot.
Replayed(l) == l.init_events \o l.update_stream

\* C39: a /rooms/listen subscriber is sent a create_room event for every
\* cached room, then the room events: relative to the room snapshot it was
\* given, every room event the monitor has processed since, each exactly
\* once and in order -- also when update_room_info or push_event runs
\* concurrently with the subscription.
C39_ListenerSeesEveryEventOnce ==
    listener # << >> =>
        LET l == listener[1]
        IN /\ l.init_rooms = {[event_type |-> "create_room", room |-> id] : id \in l.snap.rooms}
           /\ Len(Replayed(l)) = Pushed - l.snap.asof
           /\ \A i \in DOMAIN Replayed(l) : Replayed(l)[i].sn = l.snap.asof + i

====
